---------------------------- MODULE Spec2Model ----------------------------
(***************************************************************************)
(* Usage / session analytics of claude-deck: the usage log loader, the     *)
(* aggregators, the 5-hour session-block segmenter, the query-result cache *)
(* and the per-session summary cache                                       *)
(* (backend/app/services/usage_service.py, session_service.py,             *)
(* pricing_service.py, backend/app/models/database.py).                     *)
(*                                                                         *)
(* Units.  Instants are integers counted in ticks, TicksPerHour ticks to   *)
(* the hour, on the UTC time line.  Token counts are counted in thousands  *)
(* of tokens and money in units of 1e-5 USD, so that every rate of         *)
(* MODEL_PRICING is an integer; the code computes in floating point, whose *)
(* rounding is not modelled.  Cache ages are counted in minutes.           *)
(* An Optional value of the code is a sequence of length 0 (None) or 1.    *)
(***************************************************************************)
EXTENDS Integers, Sequences, FiniteSets, TLC

VARIABLES
    \* ---- identify_session_blocks (usage_service.py:439-505)
    now,                    \* datetime.now(timezone.utc), read once (l.455)
    sorted_entries,         \* the entries the loop has taken so far, in order
    current_block_start,    \* Optional instant (l.453)
    current_block_entries,  \* list of entries of the open block (l.454)
    blocks,                 \* the blocks emitted so far (l.450)
    bpc,                    \* "loop" while the for loop runs, "done" after return
    \* ---- the aggregators (usage_service.py:315-431)
    agg_entries,            \* the entry list handed to an aggregator
    agg_view,               \* "load", then the aggregator applied
    agg_rows,               \* the rows it returned
    \* ---- the query-result cache and the queries (usage_service.py:68-151,
    \*      625-882; database.py:79-92)
    clock,                  \* datetime.now(timezone.utc), in minutes
    log,                    \* the usage entries the JSONL files hold, by timestamp
    db_configured,          \* self.db is not None
    usage_cache,            \* the rows of table usage_cache
    ret,                    \* the last call and what it returned or raised
    saved,                  \* history: per cache key, the last committed save
    \* ---- concurrent save_to_cache requests (usage_service.py:104-133)
    wpc,                    \* per request: "idle", "selected", "done", "failed"
    wfound,                 \* per request: the row its select returned (l.118)
    wdata,                  \* per request: the data it is saving
    \* ---- the per-session summary cache and list_sessions
    \*      (session_service.py:38-121, 269-340; database.py:59-76)
    snow,                   \* datetime.utcnow(), in minutes
    files,                  \* the session files on disk: path -> stat
    session_cache,          \* the rows of table session_cache
    spc,                    \* where list_sessions stands
    todo,                   \* the files list_sessions has still to visit
    parsed,                 \* Optional summary built from the file at hand
    sessions,               \* the summaries collected so far (l.277)
    sret,                   \* the last call and what it returned or raised
    \* ---- the usage log loader (usage_service.py:155-273)
    jsonl,                  \* the lines of the JSONL files, per file
    lpc,                    \* "writing" until get_all_usage_entries has run
    loaded,                 \* what get_all_usage_entries returned
    \* ---- calls of the pricing service (pricing_service.py:144-237)
    pcall,                  \* the last call and its arguments
    pret,                   \* what it returned
    \* ---- the date-range queries (usage_service.py:687-828); they read
    \*      agg_entries as the entries loaded
    tzinfo,                 \* tzinfo of the loaded timestamps: "utc" or "none"
    fret,                   \* the last call and what it returned or raised
    \* ---- the conversation view of a session (session_service.py:178-209)
    conv_entries,           \* the parsed records of the session file
    conv_ret                \* the last call and what it returned

blockVars == <<now, sorted_entries, current_block_start, current_block_entries,
               blocks, bpc>>

aggVars == <<agg_entries, agg_view, agg_rows>>

cacheVars == <<clock, log, db_configured, usage_cache, ret, saved>>

concVars == <<wpc, wfound, wdata>>

sessVars == <<snow, files, session_cache, spc, todo, parsed, sessions, sret>>

loaderVars == <<jsonl, lpc, loaded>>

priceVars == <<pcall, pret>>

filterVars == <<tzinfo, fret>>

convVars == <<conv_entries, conv_ret>>

vars == <<blockVars, aggVars, cacheVars, concVars, sessVars, loaderVars,
          priceVars, filterVars, convVars>>

\* What the actions of one part leave alone: the variables of the others.
notBlock ==
    <<aggVars, cacheVars, concVars, sessVars, loaderVars, priceVars,
      filterVars, convVars>>
notAgg ==
    <<blockVars, cacheVars, concVars, sessVars, loaderVars, priceVars,
      filterVars, convVars>>
notCache ==
    <<blockVars, aggVars, concVars, sessVars, loaderVars, priceVars,
      filterVars, convVars>>
notConc ==
    <<blockVars, aggVars, sessVars, loaderVars, priceVars, filterVars,
      convVars>>
notSess ==
    <<blockVars, aggVars, cacheVars, concVars, loaderVars, priceVars,
      filterVars, convVars>>
notLoader ==
    <<blockVars, aggVars, cacheVars, concVars, sessVars, priceVars,
      filterVars, convVars>>
notPrice ==
    <<blockVars, aggVars, cacheVars, concVars, sessVars, loaderVars,
      filterVars, convVars>>
notFilter ==
    <<blockVars, cacheVars, concVars, sessVars, loaderVars, priceVars,
      convVars>>
notConv ==
    <<blockVars, aggVars, cacheVars, concVars, sessVars, loaderVars,
      priceVars, filterVars>>

None == <<>>
Some(x) == <<x>>
IsSome(o) == Len(o) = 1
Get(o) == o[1]

Max(a, b) == IF a >= b THEN a ELSE b
Min(a, b) == IF a <= b THEN a ELSE b

RECURSIVE SumSeq(_)
SumSeq(s) == IF s = <<>> THEN 0 ELSE Head(s) + SumSeq(Tail(s))

Range(s) == {s[i] : i \in 1..Len(s)}

(***************************************************************************)
(* PricingService (pricing_service.py)                                     *)
(***************************************************************************)
TIERED_THRESHOLD == 200

\* One row of MODEL_PRICING: a rate is USD per million tokens times 100,
\* i.e. 1e-5 USD per thousand tokens; the *_above_200k keys are Optional.
Rates(i, o, cc, cr, ia, oa, cca, cra) ==
    [input |-> Some(i), output |-> Some(o), cache_creation |-> Some(cc),
     cache_read |-> Some(cr), input_above_200k |-> ia, output_above_200k |-> oa,
     cache_creation_above_200k |-> cca, cache_read_above_200k |-> cra]

MODEL_PRICING ==
    [m \in {"claude-sonnet-4-20250514", "claude-opus-4-20250514",
            "claude-3-5-haiku-20241022", "claude-3-haiku-20240307"} |->
        CASE m = "claude-sonnet-4-20250514" ->
                 Rates(300, 1500, 375, 30, Some(600), Some(2250), Some(750), Some(60))
          [] m = "claude-opus-4-20250514" ->
                 Rates(1500, 7500, 1875, 150, Some(3000), Some(11250), Some(3750), Some(300))
          [] m = "claude-3-5-haiku-20241022" ->
                 Rates(80, 400, 100, 8, None, None, None, None)
          [] m = "claude-3-haiku-20240307" ->
                 Rates(25, 125, 30, 3, None, None, None, None)]

\* get_model_pricing on the model names the entries of this model carry: a
\* table key is found by the direct match; "unknown" (the loader's default
\* model) matches no key directly, with a provider prefix, normalised, or by
\* containment, and resolves to None.
get_model_pricing(model_name) ==
    IF model_name \in DOMAIN MODEL_PRICING
    THEN Some(MODEL_PRICING[model_name])
    ELSE None

\* The tiered cost that charges every token at the tiered rate once the
\* threshold is passed.
calculate_tiered_cost_AllTiered(total_tokens, base_price, tiered_price, threshold) ==
    IF total_tokens <= 0 THEN 0
    ELSE IF total_tokens > threshold /\ IsSome(tiered_price)
    THEN total_tokens * Get(tiered_price)
    ELSE IF IsSome(base_price) THEN total_tokens * Get(base_price)
    ELSE 0

\* The tiered cost that forgets the tokens below the threshold.
calculate_tiered_cost_NoBase(total_tokens, base_price, tiered_price, threshold) ==
    IF total_tokens <= 0 THEN 0
    ELSE IF total_tokens > threshold /\ IsSome(tiered_price)
    THEN Max(0, total_tokens - threshold) * Get(tiered_price)
    ELSE IF IsSome(base_price) THEN total_tokens * Get(base_price)
    ELSE 0

\* calculate_tiered_cost (l.144-180).
calculate_tiered_cost(total_tokens, base_price, tiered_price, threshold) ==
    IF total_tokens <= 0 THEN 0
    ELSE IF total_tokens > threshold /\ IsSome(tiered_price)
    THEN LET tokens_below == Min(total_tokens, threshold)
             tokens_above == Max(0, total_tokens - threshold)
         IN  tokens_above * Get(tiered_price)
             + (IF IsSome(base_price) THEN tokens_below * Get(base_price) ELSE 0)
    ELSE IF IsSome(base_price) THEN total_tokens * Get(base_price)
    ELSE 0

calculate_cost(input_tokens, output_tokens, cache_creation_tokens, cache_read_tokens, model) ==
    IF ~IsSome(model) THEN 0
    ELSE LET pricing == get_model_pricing(Get(model)) IN
         IF ~IsSome(pricing) THEN 0
         ELSE LET p == Get(pricing) IN
              calculate_tiered_cost(input_tokens, p.input,
                                    p.input_above_200k, TIERED_THRESHOLD)
              + calculate_tiered_cost(output_tokens, p.output,
                                      p.output_above_200k, TIERED_THRESHOLD)
              + calculate_tiered_cost(cache_creation_tokens, p.cache_creation,
                                      p.cache_creation_above_200k, TIERED_THRESHOLD)
              + calculate_tiered_cost(cache_read_tokens, p.cache_read,
                                      p.cache_read_above_200k, TIERED_THRESHOLD)

(***************************************************************************)
(* LoadedUsageEntry (usage_service.py:38-51)                               *)
(***************************************************************************)
\* The token counts, cost and model of a log record, without its place
\* (timestamp, session, project).
Usage(i, o, cc, cr, cost, m, ver) ==
    [input_tokens |-> i, output_tokens |-> o, cache_creation_tokens |-> cc,
     cache_read_tokens |-> cr, cost_usd |-> cost, model |-> m, version |-> ver]

LoadedUsageEntry(ts, u, sid, proj) ==
    [timestamp |-> ts, input_tokens |-> u.input_tokens,
     output_tokens |-> u.output_tokens,
     cache_creation_tokens |-> u.cache_creation_tokens,
     cache_read_tokens |-> u.cache_read_tokens, cost_usd |-> u.cost_usd,
     model |-> u.model, session_id |-> sid, version |-> u.version,
     project_path |-> proj]

_calculate_entry_cost(entry) ==
    IF IsSome(entry.cost_usd) THEN Get(entry.cost_usd)
    ELSE calculate_cost(entry.input_tokens, entry.output_tokens,
                        entry.cache_creation_tokens, entry.cache_read_tokens,
                        Some(entry.model))

SumOver(es, F(_)) == SumSeq([i \in 1..Len(es) |-> F(es[i])])

F_input(e) == e.input_tokens
F_output(e) == e.output_tokens
F_cache_creation(e) == e.cache_creation_tokens
F_cache_read(e) == e.cache_read_tokens
ModelsOf(es) == {es[i].model : i \in 1..Len(es)}

(***************************************************************************)
(* Session blocks (usage_service.py:433-621)                               *)
(***************************************************************************)
TicksPerHour == 2
SESSION_DURATION_HOURS == 5
MaxTick == 20       \* latest entry timestamp drawn
MaxNow == 22        \* latest reference time drawn
MaxEntries == 3     \* longest entry list segmented

session_duration == SESSION_DURATION_HOURS * TicksPerHour

\* The floor to the even hours.
_floor_to_hour_Even(dt) == dt - (dt % (2 * TicksPerHour))

\* _floor_to_hour (l.435-437): minute, second and microsecond set to 0.
_floor_to_hour(dt) == dt - (dt % TicksPerHour)

\* The entries the segmenter is run on: one project, one session file; the
\* records alternate between one priced by the table and one that carries
\* its own costUSD.
BlockUsageAt(i) ==
    IF i % 2 = 1 THEN Usage(1, 2, 0, 3, None, "claude-3-haiku-20240307", None)
    ELSE Usage(5, 5, 0, 0, Some(700), "unknown", Some("1.0"))

BlockEntry(ts, i) == LoadedUsageEntry(ts, BlockUsageAt(i), <<"s">>, <<"p">>)

Last(s) == s[Len(s)]

SessionBlock(id, start_time, end_time, actual_end_time, is_active, is_gap, entries) ==
    [id |-> id, start_time |-> start_time, end_time |-> end_time,
     actual_end_time |-> actual_end_time, is_active |-> is_active,
     is_gap |-> is_gap,
     input_tokens |-> SumOver(entries, F_input),
     output_tokens |-> SumOver(entries, F_output),
     cache_creation_tokens |-> SumOver(entries, F_cache_creation),
     cache_read_tokens |-> SumOver(entries, F_cache_read),
     cost_usd |-> SumOver(entries, _calculate_entry_cost),
     models |-> ModelsOf(entries),
     n_entries |-> Len(entries)]

\* The projection fields of a block that has none (l.534-538 and the
\* defaults of the SessionBlock schema).
NoProjection ==
    [burn_rate_tokens_per_minute |-> None, burn_rate_cost_per_hour |-> None,
     projected_total_tokens |-> None, projected_total_cost |-> None,
     remaining_minutes |-> None]

MinutesPerTick == 60 \div TicksPerHour

\* The test of l.540 without is_active.
HasProjection_Inactive(is_active, entries) == Len(entries) > 1

\* The test of l.540.
HasProjection(is_active, entries) == is_active /\ Len(entries) > 1

\* round(x, 2) of an amount in 1e-5 USD: the nearest cent.
RoundToCent(x) == ((x + 500) \div 1000) * 1000

\* Burn rate and projections (l.533-561).  A rate is the fraction num / den;
\* projected_total_tokens is counted in tokens; int() of a value that is
\* not negative is its floor.
Projection(entries, is_active, end_time, now_, total_tokens, cost_usd) ==
    IF ~HasProjection(is_active, entries) THEN NoProjection
    ELSE LET duration_minutes ==
                (Last(entries).timestamp - entries[1].timestamp) * MinutesPerTick
         IN  IF ~(duration_minutes > 0) THEN NoProjection
             ELSE LET remaining_minutes == Max(0, (end_time - now_) * MinutesPerTick)
                  IN  [burn_rate_tokens_per_minute |->
                          Some([num |-> total_tokens * 1000, den |-> duration_minutes]),
                       burn_rate_cost_per_hour |->
                          Some([num |-> cost_usd * 60, den |-> duration_minutes]),
                       projected_total_tokens |->
                          Some((total_tokens * 1000 * duration_minutes
                                + total_tokens * 1000 * remaining_minutes)
                               \div duration_minutes),
                       projected_total_cost |->
                          Some(RoundToCent((cost_usd * duration_minutes
                                            + cost_usd * remaining_minutes)
                                           \div duration_minutes)),
                       remaining_minutes |-> Some(remaining_minutes)]

\* is_active without the test of the nominal end.
IsActive_NoWindow(actual_end_time, end_time, now_) ==
    (now_ - actual_end_time) < session_duration

\* is_active of _create_block (l.521-523)
IsActive(actual_end_time, end_time, now_) ==
    (now_ - actual_end_time) < session_duration /\ now_ < end_time

_create_block(start_time, entries, now_) ==
    LET end_time == start_time + session_duration
        actual_end_time == IF entries # <<>> THEN Last(entries).timestamp
                           ELSE start_time
        is_active == IsActive(actual_end_time, end_time, now_)
        total_tokens == SumOver(entries, F_input) + SumOver(entries, F_output)
                        + SumOver(entries, F_cache_creation)
                        + SumOver(entries, F_cache_read)
    IN  SessionBlock([gap |-> FALSE, at |-> start_time], start_time, end_time,
                     Some(actual_end_time), is_active, FALSE, entries)
        @@ Projection(entries, is_active, end_time, now_, total_tokens,
                      SumOver(entries, _calculate_entry_cost))

\* A gap block that starts at the last activity itself.
_create_gap_block_FromLast(last_activity, next_activity) ==
    LET gap_duration == next_activity - last_activity IN
    IF gap_duration <= session_duration THEN None
    ELSE Some([id |-> [gap |-> TRUE, at |-> last_activity],
               start_time |-> last_activity, end_time |-> next_activity,
               actual_end_time |-> None, is_active |-> FALSE, is_gap |-> TRUE,
               input_tokens |-> 0, output_tokens |-> 0,
               cache_creation_tokens |-> 0, cache_read_tokens |-> 0,
               cost_usd |-> 0, models |-> {}, n_entries |-> 0]
              @@ NoProjection)

\* Optional: None when the idle time does not exceed the block duration.
_create_gap_block(last_activity, next_activity) ==
    LET gap_duration == next_activity - last_activity IN
    IF gap_duration <= session_duration THEN None
    ELSE LET gap_start == last_activity + session_duration
             gap_end == next_activity
         IN  Some(SessionBlock([gap |-> TRUE, at |-> gap_start], gap_start,
                               gap_end, None, FALSE, TRUE, <<>>)
                  @@ NoProjection)

\* The test without the time since the block start.
ClosesBlock_SinceLastOnly(time_since_start, time_since_last) ==
    time_since_last > session_duration

\* The test with >= for >.
ClosesBlock_AtLimit(time_since_start, time_since_last) ==
    time_since_start >= session_duration \/ time_since_last >= session_duration

\* The test of l.475-478: the entry does not fit the open block.
ClosesBlock(time_since_start, time_since_last) ==
    time_since_start > session_duration \/ time_since_last > session_duration

\* The test of l.486: a gap block follows the closed block.
EmitsGap(time_since_last) == time_since_last > session_duration

\* One iteration of the for loop of identify_session_blocks (l.457-498) on
\* the next entry of sorted_entries.
LoopBody(entry) ==
    LET entry_time == entry.timestamp IN
    IF ~IsSome(current_block_start)
    THEN /\ current_block_start' = Some(_floor_to_hour(entry_time))
         /\ current_block_entries' = <<entry>>
         /\ blocks' = blocks
    ELSE LET time_since_start == entry_time - Get(current_block_start)
             last_entry == Last(current_block_entries)
             time_since_last == entry_time - last_entry.timestamp
         IN  IF ClosesBlock(time_since_start, time_since_last)
             THEN LET block == _create_block(Get(current_block_start),
                                             current_block_entries, now)
                      gap_block == IF EmitsGap(time_since_last)
                                   THEN _create_gap_block(last_entry.timestamp,
                                                          entry_time)
                                   ELSE None
                  IN  /\ blocks' = blocks \o <<block>> \o gap_block
                      /\ current_block_start' = Some(_floor_to_hour(entry_time))
                      /\ current_block_entries' = <<entry>>
             ELSE /\ current_block_entries' = Append(current_block_entries, entry)
                  /\ UNCHANGED <<current_block_start, blocks>>

\* The loop takes the next entry of the timestamp-sorted input (l.451, 457).
\* The first entry is drawn within the first hour: the segmentation commutes
\* with a shift of all instants by whole hours.
BlockStep ==
    /\ bpc = "loop"
    /\ Len(sorted_entries) < MaxEntries
    /\ \E ts \in 0..MaxTick :
          LET entry == BlockEntry(ts, Len(sorted_entries) + 1) IN
          /\ IF sorted_entries = <<>> THEN ts < TicksPerHour
             ELSE ts >= Last(sorted_entries).timestamp
          /\ sorted_entries' = Append(sorted_entries, entry)
          /\ LoopBody(entry)
    /\ bpc' = "loop"
    /\ UNCHANGED <<now, notBlock>>

\* End of input (l.446-447, 500-505).
BlockReturn ==
    /\ bpc = "loop"
    /\ blocks' = IF IsSome(current_block_start) /\ current_block_entries # <<>>
                 THEN Append(blocks, _create_block(Get(current_block_start),
                                                   current_block_entries, now))
                 ELSE blocks
    /\ bpc' = "done"
    /\ UNCHANGED <<now, sorted_entries, current_block_start,
                   current_block_entries, notBlock>>

BlockInit ==
    /\ now \in 0..MaxNow
    /\ sorted_entries = <<>>
    /\ current_block_start = None
    /\ current_block_entries = <<>>
    /\ blocks = <<>>
    /\ bpc = "loop"

BlockNext == BlockStep \/ BlockReturn

BlockIdle ==
    /\ now = 0 /\ sorted_entries = <<>> /\ current_block_start = None
    /\ current_block_entries = <<>> /\ blocks = <<>> /\ bpc = "idle"

AggIdle == agg_entries = <<>> /\ agg_view = "idle" /\ agg_rows = <<>>

CacheIdle ==
    /\ clock = 0 /\ log = <<>> /\ db_configured = FALSE /\ usage_cache = {}
    /\ ret = [op |-> "idle"] /\ saved = {}

ConcIdle == wpc = <<>> /\ wfound = <<>> /\ wdata = <<>>

SessIdle ==
    /\ snow = 0 /\ files = <<>> /\ session_cache = {} /\ spc = "off"
    /\ todo = <<>> /\ parsed = None /\ sessions = <<>> /\ sret = [op |-> "idle"]

LoaderIdle == jsonl = <<>> /\ lpc = "idle" /\ loaded = <<>>

PriceIdle == pcall = [op |-> "idle"] /\ pret = 0

FilterIdle == tzinfo = "none" /\ fret = [op |-> "idle"]

ConvIdle == conv_entries = <<>> /\ conv_ret = [op |-> "idle"]

InitBlocks ==
    /\ BlockInit
    /\ AggIdle /\ CacheIdle /\ ConcIdle /\ SessIdle /\ LoaderIdle
    /\ PriceIdle /\ FilterIdle /\ ConvIdle

SpecBlocks == InitBlocks /\ [][BlockNext]_vars

(***************************************************************************)
(* Properties of the segmenter                                             *)
(***************************************************************************)
Hours(h) == h * TicksPerHour

RealBlocks == SelectSeq(blocks, LAMBDA b : ~b.is_gap)

\* Index in sorted_entries of the first and of the last entry counted in
\* blocks[j] (a gap counts none).
RECURSIVE EntriesBefore(_)
EntriesBefore(j) ==
    IF j <= 1 THEN 0 ELSE EntriesBefore(j - 1) + blocks[j - 1].n_entries
FirstIdx(j) == EntriesBefore(j) + 1
LastIdx(j) == EntriesBefore(j) + blocks[j].n_entries

TimesOf(es) == [i \in 1..Len(es) |-> es[i].timestamp]

\* The two-state machine as specified, run on the first k entries: the
\* closed blocks and the open one, each a start and its entries' timestamps.
RECURSIVE C2_Machine(_)
C2_Machine(k) ==
    IF k = 0 THEN [closed |-> <<>>, start |-> None, open |-> <<>>]
    ELSE LET p == C2_Machine(k - 1)
             t == sorted_entries[k].timestamp
             floored == (t \div TicksPerHour) * TicksPerHour
         IN  IF ~IsSome(p.start)
             THEN [closed |-> <<>>, start |-> Some(floored), open |-> <<t>>]
             ELSE IF t - Get(p.start) <= Hours(5) /\ t - Last(p.open) <= Hours(5)
             THEN [p EXCEPT !.open = Append(p.open, t)]
             ELSE [closed |-> Append(p.closed,
                                     [start |-> Get(p.start), times |-> p.open]),
                   start |-> Some(floored), open |-> <<t>>]

C2_Emitted ==
    [j \in 1..Len(RealBlocks) |->
        [start |-> RealBlocks[j].start_time, n |-> RealBlocks[j].n_entries,
         last |-> Get(RealBlocks[j].actual_end_time)]]

C2_Expected(closed) ==
    [j \in 1..Len(closed) |->
        [start |-> closed[j].start, n |-> Len(closed[j].times),
         last |-> Last(closed[j].times)]]

\* C2: identify_session_blocks is the two-state machine over the entries in
\* ascending timestamp order: the first entry opens a block at its hour; a
\* later entry joins the open block iff it is within 5 hours of the block
\* start and of the previous entry, and otherwise closes it and opens a new
\* block at its own hour; the open block is emitted at the end of input.
C2_TwoStateMachine ==
    LET m == C2_Machine(Len(sorted_entries)) IN
    /\ \A i \in 1..Len(sorted_entries) - 1 :
          sorted_entries[i].timestamp <= sorted_entries[i + 1].timestamp
    /\ bpc = "loop" =>
          /\ C2_Emitted = C2_Expected(m.closed)
          /\ current_block_start = m.start
          /\ TimesOf(current_block_entries) = m.open
    /\ bpc = "done" =>
          C2_Emitted = C2_Expected(
              IF IsSome(m.start)
              THEN Append(m.closed, [start |-> Get(m.start), times |-> m.open])
              ELSE m.closed)

\* Entries at 0:30, 5:00 and 5:30: the second is exactly 5 hours after the
\* block start and joins it, the third is closed out by the block start alone.
C2_Witness ==
    /\ bpc = "done"
    /\ TicksPerHour = 2
    /\ TimesOf(sorted_entries) = <<1, 10, 11>>
    /\ Len(blocks) = 2
    /\ blocks[1].n_entries = 2 /\ blocks[1].start_time = 0
    /\ blocks[2].n_entries = 1 /\ blocks[2].start_time = 10

IsEmptyGap(b) ==
    /\ b.is_gap /\ ~b.is_active
    /\ b.input_tokens = 0 /\ b.output_tokens = 0
    /\ b.cache_creation_tokens = 0 /\ b.cache_read_tokens = 0
    /\ b.cost_usd = 0 /\ b.models = {}

\* C3: when an entry closes the open block, one gap block follows the closed
\* block, before the new block, iff the entry comes more than 5 hours after
\* the previous entry; the gap runs from the previous entry + 5 hours to the
\* entry; no gap follows the final block.  Entries at 00:00, 04:00 and 10:00
\* give a block [00:00, 05:00) ending at 04:00, a gap [09:00, 10:00) and a
\* block at 10:00.
C3_GapBlocks ==
    bpc = "done" =>
      /\ \A j \in 1..Len(blocks) :
            blocks[j].is_gap =>
              /\ 1 < j /\ j < Len(blocks)
              /\ ~blocks[j - 1].is_gap /\ ~blocks[j + 1].is_gap
              /\ IsEmptyGap(blocks[j])
              /\ blocks[j].start_time
                    = sorted_entries[LastIdx(j - 1)].timestamp + Hours(5)
              /\ blocks[j].end_time = sorted_entries[FirstIdx(j + 1)].timestamp
              /\ blocks[j].end_time > blocks[j].start_time
      /\ \A j \in 1..Len(blocks) - 1 :
            (~blocks[j].is_gap /\ ~blocks[j + 1].is_gap) =>
               sorted_entries[FirstIdx(j + 1)].timestamp
                  - sorted_entries[LastIdx(j)].timestamp <= Hours(5)
      /\ TimesOf(sorted_entries) = <<Hours(0), Hours(4), Hours(10)>> =>
            /\ Len(blocks) = 3
            /\ blocks[1].start_time = Hours(0) /\ blocks[1].end_time = Hours(5)
            /\ blocks[1].actual_end_time = Some(Hours(4)) /\ ~blocks[1].is_gap
            /\ blocks[2].is_gap
            /\ blocks[2].start_time = Hours(9) /\ blocks[2].end_time = Hours(10)
            /\ blocks[3].start_time = Hours(10) /\ ~blocks[3].is_gap

C3_Witness ==
    /\ bpc = "done"
    /\ TimesOf(sorted_entries) = <<Hours(0), Hours(4), Hours(10)>>
    /\ Len(blocks) = 3
    /\ blocks[2].is_gap /\ blocks[2].start_time = Hours(9)

\* C4: a real block is active iff now is before its nominal end (floored
\* start + 5 hours) and less than 5 hours have passed since its last entry;
\* last entry 3 hours ago inside the window: active; 6 hours ago: not.
C4_IsActive ==
    \A j \in 1..Len(blocks) :
       ~blocks[j].is_gap =>
         LET last == sorted_entries[LastIdx(j)].timestamp
             nominal_end == blocks[j].start_time + Hours(5)
         IN  /\ blocks[j].end_time = nominal_end
             /\ blocks[j].is_active
                   <=> (now < nominal_end /\ now - last < Hours(5))
             /\ (now - last = Hours(3) /\ now < nominal_end)
                   => blocks[j].is_active
             /\ now - last = Hours(6) => ~blocks[j].is_active

\* Two blocks: the first's last entry is 6 hours before now, the second's
\* 3 hours before now with its window still open.
C4_Witness ==
    /\ bpc = "done"
    /\ Len(blocks) = 2
    /\ ~blocks[1].is_gap /\ ~blocks[2].is_gap
    /\ now - sorted_entries[LastIdx(1)].timestamp = Hours(6)
    /\ ~blocks[1].is_active
    /\ now - sorted_entries[LastIdx(2)].timestamp = Hours(3)
    /\ now < blocks[2].end_time
    /\ blocks[2].is_active

(***************************************************************************)
(* Aggregators (usage_service.py:289-431)                                  *)
(***************************************************************************)
MaxDay == 2          \* days of the calendar window entries are drawn from
MaxAggEntries == 2   \* longest entry list aggregated

TicksPerDay == 24 * TicksPerHour

\* strftime("%Y-%m-%d") and strftime("%Y-%m") of an instant, as the number
\* YYYYMMDD and YYYYMM: equal dates give equal numbers and the order of the
\* numbers is the order of the strings.  Instant 0 is 2024-12-31T00:00Z.
DayIndex(ts) == ts \div TicksPerDay
strftime_Ymd(ts) ==
    LET d == DayIndex(ts) IN
    IF d = 0 THEN 20241231
    ELSE IF d <= 31 THEN 20250100 + d
    ELSE 20250200 + (d - 31)
strftime_Ym(ts) == strftime_Ymd(ts) \div 100

\* Folder names and session ids are strings, modelled as sequences of
\* characters; ":" is the separator of the session key.
ProjectSessions ==
    { <<(<<"p">>), (<<"s">>)>>,
      <<(<<"p">>), (<<"q", ":", "s">>)>>,
      <<(<<"p", ":", "q">>), (<<"s">>)>> }

AggUsageShapes ==
    { Usage(250, 1, 0, 0, None, "claude-opus-4-20250514", Some("1.0")),
      Usage(150, 0, 1, 0, None, "claude-opus-4-20250514", None),
      Usage(5, 5, 0, 0, Some(700), "unknown", Some("2.0")) }

\* The first and the last tick of each day of the window.
AggTimes ==
    { d * TicksPerDay + k : d \in 0..MaxDay, k \in {0, TicksPerDay - 1} }

\* f"{entry.project_path}:{entry.session_id}" (l.357)
session_key_of(entry) == entry.project_path \o <<":">> \o entry.session_id

\* session_key.split(":", 1) (l.362): the key is cut at its first ":".
RECURSIVE FirstColon(_, _)
FirstColon(key, i) ==
    IF i > Len(key) THEN 0
    ELSE IF key[i] = ":" THEN i ELSE FirstColon(key, i + 1)
split_key(key) ==
    LET i == FirstColon(key, 1) IN
    <<SubSeq(key, 1, i - 1), SubSeq(key, i + 1, Len(key))>>

\* The distinct values of a list in the order of their first occurrence:
\* the key order of a dict filled in list order.
RECURSIVE FirstOccurrences(_)
FirstOccurrences(ks) ==
    IF ks = <<>> THEN <<>>
    ELSE LET init == FirstOccurrences(SubSeq(ks, 1, Len(ks) - 1))
             k == ks[Len(ks)]
         IN  IF \E i \in 1..Len(init) : init[i] = k THEN init
             ELSE Append(init, k)

\* sorted(..., reverse=True) of a set of numbers.
RECURSIVE SortedDesc(_)
SortedDesc(S) ==
    IF S = {} THEN <<>>
    ELSE LET mx == CHOOSE x \in S : \A y \in S : y <= x
         IN  <<mx>> \o SortedDesc(S \ {mx})

\* A breakdown list with one element per entry, not merged by model.
_aggregate_model_breakdowns_PerEntry(entries) ==
    [j \in 1..Len(entries) |->
        [model |-> entries[j].model,
         input_tokens |-> entries[j].input_tokens,
         output_tokens |-> entries[j].output_tokens,
         cache_creation_tokens |-> entries[j].cache_creation_tokens,
         cache_read_tokens |-> entries[j].cache_read_tokens,
         cost |-> _calculate_entry_cost(entries[j])]]

\* _aggregate_model_breakdowns (l.289-313)
_aggregate_model_breakdowns(entries) ==
    LET models == FirstOccurrences([i \in 1..Len(entries) |-> entries[i].model])
    IN  [j \in 1..Len(models) |->
           LET es == SelectSeq(entries, LAMBDA e : e.model = models[j]) IN
           [model |-> models[j],
            input_tokens |-> SumOver(es, F_input),
            output_tokens |-> SumOver(es, F_output),
            cache_creation_tokens |-> SumOver(es, F_cache_creation),
            cache_read_tokens |-> SumOver(es, F_cache_read),
            cost |-> SumOver(es, _calculate_entry_cost)]]

\* A total cost priced once, from the summed token counts of the entries.
RowCost_FromTotals(entries) ==
    IF entries = <<>> THEN 0
    ELSE calculate_cost(SumOver(entries, F_input), SumOver(entries, F_output),
                        SumOver(entries, F_cache_creation),
                        SumOver(entries, F_cache_read), Some(entries[1].model))

\* total_cost of a row (l.331, 368, 414)
RowCost(entries) == SumOver(entries, _calculate_entry_cost)

\* The fields the three kinds of row share (l.327-333, 364-368, 410-416).
RowTotals(entries) ==
    [input_tokens |-> SumOver(entries, F_input),
     output_tokens |-> SumOver(entries, F_output),
     cache_creation_tokens |-> SumOver(entries, F_cache_creation),
     cache_read_tokens |-> SumOver(entries, F_cache_read),
     total_cost |-> RowCost(entries),
     models_used |-> ModelsOf(entries),
     model_breakdowns |-> _aggregate_model_breakdowns(entries)]

aggregate_by_daily(entries) ==
    LET dates == SortedDesc({strftime_Ymd(entries[i].timestamp) : i \in 1..Len(entries)})
    IN  [j \in 1..Len(dates) |->
           LET day_entries ==
                 SelectSeq(entries, LAMBDA e : strftime_Ymd(e.timestamp) = dates[j])
           IN  [date |-> dates[j], totals |-> RowTotals(day_entries)]]

aggregate_by_monthly(entries) ==
    LET months == SortedDesc({strftime_Ym(entries[i].timestamp) : i \in 1..Len(entries)})
    IN  [j \in 1..Len(months) |->
           LET month_entries ==
                 SelectSeq(entries, LAMBDA e : strftime_Ym(e.timestamp) = months[j])
           IN  [month |-> months[j], totals |-> RowTotals(month_entries)]]

\* max(session_entries, key=timestamp) (l.371): the first of the latest.
LastEntry(es) ==
    es[CHOOSE i \in 1..Len(es) :
          /\ \A k \in 1..Len(es) : es[k].timestamp <= es[i].timestamp
          /\ \A k \in 1..(i - 1) : es[k].timestamp < es[i].timestamp]

\* list.sort(key=last_activity, reverse=True) (l.395): stable, descending.
RECURSIVE SortByLastActivityDesc(_)
SortByLastActivityDesc(rows) ==
    IF rows = <<>> THEN <<>>
    ELSE LET i == CHOOSE i \in 1..Len(rows) :
                    /\ \A k \in 1..Len(rows) :
                          rows[k].last_activity <= rows[i].last_activity
                    /\ \A k \in 1..(i - 1) :
                          rows[k].last_activity < rows[i].last_activity
         IN  <<rows[i]>> \o SortByLastActivityDesc(
                 SubSeq(rows, 1, i - 1) \o SubSeq(rows, i + 1, Len(rows)))

aggregate_by_session(entries) ==
    LET keys == FirstOccurrences([i \in 1..Len(entries) |-> session_key_of(entries[i])])
        rows == [j \in 1..Len(keys) |->
                   LET session_entries ==
                         SelectSeq(entries, LAMBDA e : session_key_of(e) = keys[j])
                       parts == split_key(keys[j])
                   IN  [session_id |-> parts[2], project_path |-> parts[1],
                        totals |-> RowTotals(session_entries),
                        last_activity |->
                            strftime_Ymd(LastEntry(session_entries).timestamp),
                        versions |->
                            {Get(session_entries[i].version) :
                               i \in {k \in 1..Len(session_entries) :
                                         IsSome(session_entries[k].version)}}]]
    IN  SortByLastActivityDesc(rows)

\* get_all_usage_entries hands the aggregators a list sorted by timestamp
\* (l.272): the next entry loaded is not earlier than the last one.
AggLoad ==
    /\ agg_view = "load"
    /\ Len(agg_entries) < MaxAggEntries
    /\ \E ts \in AggTimes, u \in AggUsageShapes, ps \in ProjectSessions :
          /\ agg_entries # <<>> => ts >= Last(agg_entries).timestamp
          /\ agg_entries' = Append(agg_entries, LoadedUsageEntry(ts, u, ps[2], ps[1]))
    /\ UNCHANGED <<agg_view, agg_rows, notAgg>>

AggDaily ==
    /\ agg_view = "load"
    /\ agg_rows' = aggregate_by_daily(agg_entries)
    /\ agg_view' = "daily"
    /\ UNCHANGED <<agg_entries, notAgg>>

AggMonthly ==
    /\ agg_view = "load"
    /\ agg_rows' = aggregate_by_monthly(agg_entries)
    /\ agg_view' = "monthly"
    /\ UNCHANGED <<agg_entries, notAgg>>

AggSession ==
    /\ agg_view = "load"
    /\ agg_rows' = aggregate_by_session(agg_entries)
    /\ agg_view' = "session"
    /\ UNCHANGED <<agg_entries, notAgg>>

AggInit == agg_entries = <<>> /\ agg_view = "load" /\ agg_rows = <<>>

AggNext == AggLoad \/ AggDaily \/ AggMonthly \/ AggSession

InitAgg ==
    /\ AggInit
    /\ BlockIdle /\ CacheIdle /\ ConcIdle /\ SessIdle /\ LoaderIdle
    /\ PriceIdle /\ FilterIdle /\ ConvIdle

SpecAgg == InitAgg /\ [][AggNext]_vars

\* The entries of agg_entries that fall in the partition of a row.
RowPartition(row) ==
    CASE agg_view = "daily" ->
           SelectSeq(agg_entries, LAMBDA e : strftime_Ymd(e.timestamp) = row.date)
      [] agg_view = "monthly" ->
           SelectSeq(agg_entries, LAMBDA e : strftime_Ym(e.timestamp) = row.month)
      [] agg_view = "session" ->
           SelectSeq(agg_entries,
                     LAMBDA e : session_key_of(e)
                                  = row.project_path \o <<":">> \o row.session_id)
      [] OTHER -> <<>>

\* The cost of one entry by itself: its own cost_usd, else its token counts
\* priced by the tiered rates of its model.
C1_EntryCost(e) ==
    IF e.cost_usd # None THEN e.cost_usd[1]
    ELSE calculate_cost(e.input_tokens, e.output_tokens, e.cache_creation_tokens,
                        e.cache_read_tokens, Some(e.model))

\* C1: the total_cost of every daily, monthly and session row is the sum of
\* the per-entry costs of the entries of the row's partition; it is not
\* priced from the partition's summed token counts.
C1_CostIsSumOfEntryCosts ==
    \A j \in 1..Len(agg_rows) :
       LET part == RowPartition(agg_rows[j]) IN
       /\ part # <<>>
       /\ agg_rows[j].totals.total_cost = SumOver(part, C1_EntryCost)

\* A session row of two entries that straddle the threshold together but
\* not each alone (250k + 150k input tokens of one model).
C1_Witness ==
    /\ agg_view = "session"
    /\ Len(agg_rows) = 1
    /\ Len(agg_entries) = 2
    /\ agg_entries[1].input_tokens = 250 /\ agg_entries[2].input_tokens = 150
    /\ agg_rows[1].totals.total_cost = 457500 + 226875
    /\ agg_rows[1].totals.total_cost # RowCost_FromTotals(agg_entries)

(***************************************************************************)
(* Query-result cache and the cached queries                               *)
(* (usage_service.py:68-151, 625-732; database.py:79-92)                   *)
(***************************************************************************)
CACHE_TTL_MINUTES == 5
MaxClock == 7        \* last minute of the clock
MaxLog == 2          \* most usage records the log files come to hold

\* ":".join(parts) of strings, each a sequence of characters or words.
RECURSIVE JoinColon(_)
JoinColon(parts) ==
    IF parts = <<>> THEN <<>>
    ELSE IF Len(parts) = 1 THEN parts[1]
    ELSE parts[1] \o <<":">> \o JoinColon(Tail(parts))

\* get_cache_key (l.68-81); params is **params in sorted(params.items())
\* order, each <<name, Optional value>>.
get_cache_key(cache_type, project_path, params) ==
    LET given == SelectSeq(params, LAMBDA kv : IsSome(kv[2])) IN
    JoinColon(<<(<<cache_type>>)>>
              \o (IF IsSome(project_path) /\ Get(project_path) # <<>>
                  THEN <<(<<"project", ":">> \o Get(project_path))>>
                  ELSE <<>>)
              \o [i \in 1..Len(given) |-> <<given[i][1], ":">> \o Get(given[i][2])])

\* select(UsageCache).where(cache_key == key), scalar_one_or_none (l.88-91).
\* cache_key is unique (database.py:85): at most one row is found.
SelectUsageCache(table, cache_key) ==
    LET rows == {r \in table : r.cache_key = cache_key} IN
    IF rows = {} THEN None ELSE Some(CHOOSE r \in rows : TRUE)

\* The staleness test with >= for >.
IsStale_AtLimit(cached_at, now_) == now_ - cached_at >= CACHE_TTL_MINUTES

\* The staleness test of l.97-99.
IsStale(cached_at, now_) == now_ - cached_at > CACHE_TTL_MINUTES

\* get_from_cache (l.83-102) on a store that answers; Optional data.
get_from_cache(table, cache_key, now_) ==
    IF ~db_configured THEN None
    ELSE LET cache_entry == SelectUsageCache(table, cache_key) IN
         IF ~IsSome(cache_entry) THEN None
         ELSE IF IsStale(Get(cache_entry).cached_at, now_) THEN None
         ELSE Some(Get(cache_entry).data)

\* The upsert that leaves cached_at of an existing row as it is.
save_to_cache_KeepTime(table, cache_key, cache_type, data, project_path, now_) ==
    IF ~db_configured THEN table
    ELSE LET cache_entry == SelectUsageCache(table, cache_key) IN
         IF IsSome(cache_entry)
         THEN (table \ {Get(cache_entry)})
              \cup {[Get(cache_entry) EXCEPT !.data = data]}
         ELSE table \cup {[cache_key |-> cache_key, cache_type |-> cache_type,
                           project_path |-> project_path, data |-> data,
                           cached_at |-> now_]}

\* save_to_cache (l.104-133) on a store that answers: the table after the
\* commit.  The data column is JSON; the data saved are model_dump() of a
\* response, which the column gives back as they were written.  cached_at is
\* UTC wall time on both paths (column default utcnow on insert, l.123 on
\* update).
save_to_cache(table, cache_key, cache_type, data, project_path, now_) ==
    IF ~db_configured THEN table
    ELSE LET cache_entry == SelectUsageCache(table, cache_key) IN
         IF IsSome(cache_entry)
         THEN (table \ {Get(cache_entry)})
              \cup {[Get(cache_entry) EXCEPT !.data = data, !.cached_at = now_]}
         ELSE table \cup {[cache_key |-> cache_key, cache_type |-> cache_type,
                           project_path |-> project_path, data |-> data,
                           cached_at |-> now_]}

\* get_all_usage_entries (l.260-273): the entries of the project folder, or
\* of all folders, by timestamp.
get_all_usage_entries(project_path) ==
    IF IsSome(project_path) /\ Get(project_path) # <<>>
    THEN SelectSeq(log, LAMBDA e : e.project_path = Get(project_path))
    ELSE log

\* The summary of get_usage_summary (l.637-680).
UsageSummary(entries) ==
    IF entries = <<>>
    THEN [total_cost |-> 0, total_input_tokens |-> 0, total_output_tokens |-> 0,
          total_cache_creation_tokens |-> 0, total_cache_read_tokens |-> 0,
          total_tokens |-> 0, project_count |-> 0, session_count |-> 0,
          models_used |-> {}, date_range_start |-> None, date_range_end |-> None]
    ELSE [total_cost |-> SumOver(entries, _calculate_entry_cost),
          total_input_tokens |-> SumOver(entries, F_input),
          total_output_tokens |-> SumOver(entries, F_output),
          total_cache_creation_tokens |-> SumOver(entries, F_cache_creation),
          total_cache_read_tokens |-> SumOver(entries, F_cache_read),
          total_tokens |-> SumOver(entries, F_input) + SumOver(entries, F_output)
                           + SumOver(entries, F_cache_creation)
                           + SumOver(entries, F_cache_read),
          project_count |-> Cardinality({entries[i].project_path : i \in 1..Len(entries)}),
          session_count |-> Cardinality({session_key_of(entries[i]) : i \in 1..Len(entries)}),
          models_used |-> ModelsOf(entries),
          date_range_start |-> Some(strftime_Ymd(entries[1].timestamp)),
          date_range_end |-> Some(strftime_Ymd(Last(entries).timestamp))]

F_row_input(r) == r.totals.input_tokens
F_row_output(r) == r.totals.output_tokens
F_row_cache_creation(r) == r.totals.cache_creation_tokens
F_row_cache_read(r) == r.totals.cache_read_tokens
F_row_cost(r) == r.totals.total_cost

\* DailyUsageListResponse of get_daily_usage without date filters (l.712-727).
DailyUsageListResponse(entries) ==
    LET daily_data == aggregate_by_daily(entries) IN
    [data |-> daily_data,
     totals |-> [input_tokens |-> SumOver(daily_data, F_row_input),
                 output_tokens |-> SumOver(daily_data, F_row_output),
                 cache_creation_tokens |-> SumOver(daily_data, F_row_cache_creation),
                 cache_read_tokens |-> SumOver(daily_data, F_row_cache_read)],
     total_cost |-> SumOver(daily_data, F_row_cost)]

\* What a query computes from the source files when the cache gives nothing.
ComputeFromSource(kind, project_path) ==
    IF kind = "summary" THEN UsageSummary(get_all_usage_entries(project_path))
    ELSE DailyUsageListResponse(get_all_usage_entries(project_path))

\* The cache key of the two queries (l.629, 694-696; no date filter given).
QueryKey(kind, project_path) ==
    IF kind = "summary" THEN get_cache_key("summary", project_path, <<>>)
    ELSE get_cache_key("daily", project_path,
                       <<(<<"end", None>>), (<<"start", None>>)>>)

\* The queries issued: get_usage_summary() and get_daily_usage("p").
Requests ==
    { [kind |-> "summary", project_path |-> None],
      [kind |-> "daily", project_path |-> Some(<<"p">>)] }

\* The k-th usage record the logging agent writes: one a day, the projects
\* p and q in turn.
LogEntryAt(k) ==
    LoadedUsageEntry((k - 1) * TicksPerDay,
                     IF k % 2 = 1
                     THEN Usage(250, 1, 0, 0, None, "claude-opus-4-20250514", None)
                     ELSE Usage(5, 5, 0, 0, Some(700), "unknown", Some("2.0")),
                     <<"s">>,
                     IF k % 3 = 2 THEN <<"q">> ELSE <<"p">>)

Remember(key, data, src) ==
    {h \in saved : h.key # key}
       \cup {[key |-> key, data |-> data, at |-> clock, src |-> src]}

\* get_usage_summary (l.625-685) and get_daily_usage (l.687-732).  A store
\* operation raises when the store does not answer (fault): nothing in the
\* handlers catches it.
Query(kind, project_path, fault) ==
    LET key == QueryKey(kind, project_path)
        cached == get_from_cache(usage_cache, key, clock)
        entries == get_all_usage_entries(project_path)
        fresh == ComputeFromSource(kind, project_path)
        call == [op |-> "query", kind |-> kind, project_path |-> project_path,
                 key |-> key, fault |-> fault]
    IN  IF db_configured /\ fault = "get"
        THEN /\ ret' = call @@ [status |-> "raised", result |-> None,
                                from_cache |-> FALSE]
             /\ UNCHANGED <<usage_cache, saved>>
        ELSE IF IsSome(cached)
        THEN /\ ret' = call @@ [status |-> "ok", result |-> cached,
                                from_cache |-> TRUE]
             /\ UNCHANGED <<usage_cache, saved>>
        ELSE IF kind = "summary" /\ entries = <<>>
        THEN /\ ret' = call @@ [status |-> "ok", result |-> Some(fresh),
                                from_cache |-> FALSE]
             /\ UNCHANGED <<usage_cache, saved>>
        ELSE IF db_configured /\ fault = "save"
        THEN /\ ret' = call @@ [status |-> "raised", result |-> None,
                                from_cache |-> FALSE]
             /\ UNCHANGED <<usage_cache, saved>>
        ELSE /\ usage_cache' = save_to_cache(usage_cache, key, kind, fresh,
                                             project_path, clock)
             /\ saved' = IF db_configured
                         THEN Remember(key, fresh, Len(entries))
                         ELSE saved
             /\ ret' = call @@ [status |-> "ok", result |-> Some(fresh),
                                from_cache |-> FALSE]

CacheQuery ==
    /\ \E q \in Requests, fault \in {"none", "get", "save"} :
          Query(q.kind, q.project_path, fault)
    /\ UNCHANGED <<clock, log, db_configured, notCache>>

\* A direct get_from_cache(cache_key) on a store that answers.
CacheGet ==
    /\ \E q \in Requests :
          LET key == QueryKey(q.kind, q.project_path) IN
          ret' = [op |-> "get_from_cache", key |-> key, status |-> "ok",
                  result |-> get_from_cache(usage_cache, key, clock)]
    /\ UNCHANGED <<clock, log, db_configured, usage_cache, saved, notCache>>

\* A minute passes.
CacheTick ==
    /\ clock < MaxClock
    /\ clock' = clock + 1
    /\ ret' = [op |-> "tick"]
    /\ UNCHANGED <<log, db_configured, usage_cache, saved, notCache>>

\* The logging agent appends a record to a JSONL file.
CacheAppend ==
    /\ Len(log) < MaxLog
    /\ log' = Append(log, LogEntryAt(Len(log) + 1))
    /\ ret' = [op |-> "append"]
    /\ UNCHANGED <<clock, db_configured, usage_cache, saved, notCache>>

CacheInit ==
    /\ clock = 0 /\ log = <<>> /\ db_configured \in BOOLEAN
    /\ usage_cache = {} /\ ret = [op |-> "init"] /\ saved = {}

CacheNext == CacheQuery \/ CacheGet \/ CacheTick \/ CacheAppend

InitCache ==
    /\ CacheInit
    /\ BlockIdle /\ AggIdle /\ ConcIdle /\ SessIdle /\ LoaderIdle
    /\ PriceIdle /\ FilterIdle /\ ConvIdle

SpecCache == InitCache /\ [][CacheNext]_vars

(***************************************************************************)
(* Properties of the query-result cache                                    *)
(***************************************************************************)
LastSave(key) == {h \in saved : h.key = key}

C6_NoStaleResultAfterSourceChange ==
    (ret.op = "query" /\ ret.status = "ok" /\ ret.from_cache) =>
       /\ \A h \in LastSave(ret.key) :
             h.src = Len(get_all_usage_entries(ret.project_path))
       /\ ret.result = Some(ComputeFromSource(ret.kind, ret.project_path))

\* C9: the cache is advisory: with no store configured, or when a store
\* operation fails, a query completes and returns what it computes from the
\* source files.
C9_CacheIsAdvisory ==
    ret.op = "query" =>
       /\ ret.status = "ok"
       /\ ~db_configured =>
             ret.result = Some(ComputeFromSource(ret.kind, ret.project_path))

(***************************************************************************)
(* Concurrent requests on the query-result cache.                          *)
(* Every request has its own AsyncSession; a request runs until its next   *)
(* await, so the select of save_to_cache (l.115-118) and its commit        *)
(* (l.133) are separate steps between which other requests run.  The rows  *)
(* a session reads are the committed rows.                                 *)
(***************************************************************************)
MaxSaves == 2

Writers == {"w1", "w2"}

\* The key the concurrent requests share: that of get_usage_summary().
ConcKey == QueryKey("summary", None)

\* The data of the n-th save of request w (response.model_dump()).
WriteData(w, n) == [total_cost |-> n, saved_by |-> w]

\* save_to_cache l.115-118: the select and scalar_one_or_none.
ConcSelect(w) ==
    /\ wpc[w] \in {"idle", "done"}
    /\ wdata[w] < MaxSaves
    /\ wdata' = [wdata EXCEPT ![w] = @ + 1]
    /\ wfound' = [wfound EXCEPT ![w] = SelectUsageCache(usage_cache, ConcKey)]
    /\ wpc' = [wpc EXCEPT ![w] = "selected"]
    /\ ret' = [op |-> "select", by |-> w]
    /\ UNCHANGED <<clock, log, db_configured, usage_cache, saved, notConc>>

\* save_to_cache l.120-133: assignment to the row found, or add of a new
\* row, and the commit.  The commit of a new row whose cache_key is already
\* in the table violates the unique index of database.py:85 and raises
\* IntegrityError, which nothing catches.
ConcCommit(w) ==
    /\ wpc[w] = "selected"
    /\ LET data == WriteData(w, wdata[w]) IN
       IF IsSome(wfound[w])
       THEN /\ usage_cache' =
                  {IF r.cache_key = ConcKey
                   THEN [r EXCEPT !.data = data, !.cached_at = clock]
                   ELSE r : r \in usage_cache}
            /\ saved' = Remember(ConcKey, data, 0)
            /\ wpc' = [wpc EXCEPT ![w] = "done"]
            /\ ret' = [op |-> "save_to_cache", by |-> w, status |-> "ok"]
       ELSE IF \E r \in usage_cache : r.cache_key = ConcKey
       THEN /\ wpc' = [wpc EXCEPT ![w] = "failed"]
            /\ ret' = [op |-> "save_to_cache", by |-> w, status |-> "raised"]
            /\ UNCHANGED <<usage_cache, saved>>
       ELSE /\ usage_cache' = usage_cache \cup
                  {[cache_key |-> ConcKey, cache_type |-> "summary",
                    project_path |-> None, data |-> data, cached_at |-> clock]}
            /\ saved' = Remember(ConcKey, data, 0)
            /\ wpc' = [wpc EXCEPT ![w] = "done"]
            /\ ret' = [op |-> "save_to_cache", by |-> w, status |-> "ok"]
    /\ UNCHANGED <<clock, log, db_configured, wfound, wdata, notConc>>

\* get_from_cache of a third request.
ConcRead ==
    /\ ret' = [op |-> "get_from_cache", key |-> ConcKey, status |-> "ok",
               result |-> get_from_cache(usage_cache, ConcKey, clock)]
    /\ UNCHANGED <<clock, log, db_configured, usage_cache, saved, concVars,
                   notConc>>

\* A minute passes.
ConcTick ==
    /\ clock < MaxClock
    /\ clock' = clock + 1
    /\ ret' = [op |-> "tick"]
    /\ UNCHANGED <<log, db_configured, usage_cache, saved, concVars, notConc>>

ConcInit ==
    /\ clock = 0 /\ log = <<>> /\ db_configured = TRUE /\ usage_cache = {}
    /\ ret = [op |-> "init"] /\ saved = {}
    /\ wpc = [w \in Writers |-> "idle"]
    /\ wfound = [w \in Writers |-> None]
    /\ wdata = [w \in Writers |-> 0]

ConcNext ==
    \/ \E w \in Writers : ConcSelect(w)
    \/ \E w \in Writers : ConcCommit(w)
    \/ ConcRead
    \/ ConcTick

InitConc ==
    /\ ConcInit
    /\ BlockIdle /\ AggIdle /\ SessIdle /\ LoaderIdle /\ PriceIdle
    /\ FilterIdle /\ ConvIdle

SpecConc == InitConc /\ [][ConcNext]_vars

RowsOf(key) == {r \in usage_cache : r.cache_key = key}

\* C8: when two requests run save_to_cache for the same key concurrently
\* while others read the key, no operation fails, the store holds exactly
\* one row for the key once both have finished, with the complete value of
\* one of the two writes, and every read returns the complete value of one
\* committed save.
C8_ConcurrentUpsert ==
    /\ \A w \in Writers : wpc[w] # "failed"
    /\ Cardinality(RowsOf(ConcKey)) <= 1
    /\ (\A w \in Writers : wpc[w] = "done") =>
          \E r \in RowsOf(ConcKey), w \in Writers :
             r.data = WriteData(w, wdata[w])
    /\ (ret.op = "get_from_cache" /\ IsSome(ret.result)) =>
          \E h \in LastSave(ConcKey) : Get(ret.result) = h.data

(***************************************************************************)
(* The per-session summary cache and list_sessions                         *)
(* (session_service.py:38-121, 269-340; database.py:59-76).                *)
(* A session file is <projects_dir>/<project_folder>/<session_id>.jsonl;   *)
(* it is named here by <<project_folder, session_id>>.  The logging agent  *)
(* appends records to it at any moment; each append adds one record, so    *)
(* the size of a file counts its records.  list_sessions runs until its    *)
(* next read of the file system or of the store.                           *)
(***************************************************************************)
Session_CACHE_TTL_MINUTES == 5
MaxSessClock == 6
MaxSize == 2

\* The session files, in the order list_sessions visits them: one session
\* id, present in two project folders.
FileOrder == << <<"A", "s">>, <<"B", "s">> >>

SessionFiles == Range(FileOrder)

\* get_file_hash (l.38-41): md5 of "<st_size>:<st_mtime>"; two stats have
\* the same digest iff they agree on size and modification time.
get_file_hash(stat) == <<stat.size, stat.mtime>>

\* select(SessionCache).where(session_id == .., project_folder == ..) and
\* scalar_one_or_none (l.48-54, 91-97).
SelectSessionCache(table, f) ==
    LET rows == {r \in table : r.session_id = f[2] /\ r.project_folder = f[1]}
    IN  IF rows = {} THEN None ELSE Some(CHOOSE r \in rows : TRUE)

\* The SessionSummary built from a cache row (l.72-81) or from the parsed
\* file (l.317-326).
SessionSummary(f, summary, modified_at, size_bytes, total_messages) ==
    [id |-> f[2], project_folder |-> f[1], summary |-> summary,
     modified_at |-> modified_at, size_bytes |-> size_bytes,
     total_messages |-> total_messages]

\* The staleness test of l.60.
SessionIsStale(cached_at, now_) == now_ - cached_at > Session_CACHE_TTL_MINUTES

\* get_cached_summary (l.43-81).
get_cached_summary(table, f, now_) ==
    LET cache_entry == SelectSessionCache(table, f) IN
    IF ~IsSome(cache_entry) THEN None
    ELSE IF SessionIsStale(Get(cache_entry).cached_at, now_) THEN None
    ELSE IF f \notin DOMAIN files THEN None
    ELSE IF get_file_hash(files[f]) # Get(cache_entry).file_hash THEN None
    ELSE Some(SessionSummary(f, Get(cache_entry).summary,
                             Get(cache_entry).modified_at,
                             Get(cache_entry).size_bytes,
                             Get(cache_entry).total_messages))

\* list_sessions l.301-326: stat, parse, summary text and counts of the
\* file as it is when read.
ParseSummary(f, stat) ==
    SessionSummary(f, <<"records", stat.size>>, stat.mtime, stat.size, stat.size)

\* The folders scanned (l.283-291) and their *.jsonl files (l.292).
FilesToScan(project_folder) ==
    SelectSeq(FileOrder,
              LAMBDA f : /\ f \in DOMAIN files
                         /\ (IsSome(project_folder) => f[1] = Get(project_folder)))

\* sessions.sort(key=modified_at, reverse=True) (l.330-332): stable, the
\* latest first.
RECURSIVE SortByModifiedDesc(_)
SortByModifiedDesc(ss) ==
    IF ss = <<>> THEN <<>>
    ELSE LET rest == SortByModifiedDesc(Tail(ss))
             x == Head(ss)
             before == SelectSeq(rest, LAMBDA y : y.modified_at > x.modified_at)
             after == SelectSeq(rest, LAMBDA y : y.modified_at <= x.modified_at)
         IN  before \o <<x>> \o after

\* list_sessions(project_folder) is called (l.269-291).
SessStart ==
    /\ spc = "idle"
    /\ \E project_folder \in {None, Some("A"), Some("B")} :
          /\ todo' = FilesToScan(project_folder)
          /\ sret' = [op |-> "list_sessions", project_folder |-> project_folder,
                      status |-> "running"]
    /\ sessions' = <<>>
    /\ parsed' = None
    /\ spc' = "loop"
    /\ UNCHANGED <<snow, files, session_cache, notSess>>

\* l.293-299: the cache is tried for the next file.
SessCheck ==
    /\ spc = "loop" /\ todo # <<>>
    /\ LET f == Head(todo)
           cached == get_cached_summary(session_cache, f, snow)
       IN  /\ sret' = [op |-> "get_cached_summary", file |-> f,
                       result |-> cached, within |-> "list_sessions"]
           /\ IF IsSome(cached)
              THEN /\ sessions' = Append(sessions, Get(cached))
                   /\ todo' = Tail(todo)
                   /\ UNCHANGED spc
              ELSE /\ spc' = "parse"
                   /\ UNCHANGED <<sessions, todo>>
    /\ UNCHANGED <<snow, files, session_cache, parsed, notSess>>

\* l.301-326: the file is read and its summary appended to the answer.
SessParse ==
    /\ spc = "parse"
    /\ LET f == Head(todo)
           summary == ParseSummary(f, files[f])
       IN  /\ parsed' = Some(summary)
           /\ sessions' = Append(sessions, summary)
           /\ sret' = [op |-> "parse", file |-> f]
    /\ spc' = "save"
    /\ UNCHANGED <<snow, files, session_cache, todo, notSess>>

\* save_to_cache (l.83-121), called at l.327.  The hash is taken from the
\* file as it is now (l.88).  session_id alone carries a unique index
\* (database.py:65): the commit of a new row whose session_id is in the
\* table under another project_folder raises IntegrityError, which neither
\* save_to_cache nor list_sessions catches.
SessSave ==
    /\ spc = "save"
    /\ LET f == Head(todo)
           summary == Get(parsed)
           file_hash == get_file_hash(files[f])
           cache_entry == SelectSessionCache(session_cache, f)
           row == [session_id |-> f[2], project_folder |-> f[1],
                   summary |-> summary.summary,
                   modified_at |-> summary.modified_at,
                   size_bytes |-> summary.size_bytes,
                   total_messages |-> summary.total_messages,
                   cached_at |-> snow, file_hash |-> file_hash]
       IN  IF IsSome(cache_entry)
           THEN /\ session_cache' = (session_cache \ {Get(cache_entry)}) \cup {row}
                /\ sret' = [op |-> "save_to_cache", file |-> f,
                            status |-> "ok", summary |-> summary]
                /\ todo' = Tail(todo)
                /\ spc' = "loop"
                /\ UNCHANGED sessions
           ELSE IF \E r \in session_cache : r.session_id = f[2]
           THEN /\ sret' = [op |-> "save_to_cache", file |-> f,
                            status |-> "raised", summary |-> summary]
                /\ todo' = <<>>
                /\ sessions' = <<>>
                /\ spc' = "idle"
                /\ UNCHANGED session_cache
           ELSE /\ session_cache' = session_cache \cup {row}
                /\ sret' = [op |-> "save_to_cache", file |-> f,
                            status |-> "ok", summary |-> summary]
                /\ todo' = Tail(todo)
                /\ spc' = "loop"
                /\ UNCHANGED sessions
    /\ parsed' = None
    /\ UNCHANGED <<snow, files, notSess>>

\* l.329-340: sort by date, descending; the limit of 50 is not reached.
SessReturn ==
    /\ spc = "loop" /\ todo = <<>>
    /\ sret' = [op |-> "list_sessions", status |-> "ok",
                sessions |-> SortByModifiedDesc(sessions)]
    /\ spc' = "idle"
    /\ UNCHANGED <<snow, files, session_cache, todo, parsed, sessions, notSess>>

\* get_cached_summary(session_id, project_folder) called by itself.
SessGet ==
    /\ spc = "idle"
    /\ \E f \in SessionFiles :
          sret' = [op |-> "get_cached_summary", file |-> f,
                   result |-> get_cached_summary(session_cache, f, snow),
                   within |-> "none"]
    /\ UNCHANGED <<snow, files, session_cache, spc, todo, parsed, sessions,
                   notSess>>

\* The logging agent appends a record to a session file.
SessAppend ==
    /\ \E f \in DOMAIN files :
          /\ files[f].size < MaxSize
          /\ files' = [files EXCEPT ![f] = [size |-> @.size + 1, mtime |-> snow]]
    /\ sret' = [op |-> "append"]
    /\ UNCHANGED <<snow, session_cache, spc, todo, parsed, sessions, notSess>>

\* A session file is removed between two requests.
SessDelete ==
    /\ spc = "idle"
    /\ \E f \in DOMAIN files :
          files' = [g \in (DOMAIN files) \ {f} |-> files[g]]
    /\ sret' = [op |-> "delete"]
    /\ UNCHANGED <<snow, session_cache, spc, todo, parsed, sessions, notSess>>

\* A minute passes.
SessTick ==
    /\ snow < MaxSessClock
    /\ snow' = snow + 1
    /\ sret' = [op |-> "tick"]
    /\ UNCHANGED <<files, session_cache, spc, todo, parsed, sessions, notSess>>

SessInit ==
    /\ snow = 0
    /\ files = [f \in SessionFiles |-> [size |-> 1, mtime |-> 0]]
    /\ session_cache = {}
    /\ spc = "idle" /\ todo = <<>> /\ parsed = None /\ sessions = <<>>
    /\ sret = [op |-> "init"]

SessNext ==
    \/ SessStart \/ SessCheck \/ SessParse \/ SessSave \/ SessReturn
    \/ SessGet \/ SessAppend \/ SessDelete \/ SessTick

InitSess ==
    /\ SessInit
    /\ BlockIdle /\ AggIdle /\ CacheIdle /\ ConcIdle /\ LoaderIdle
    /\ PriceIdle /\ FilterIdle /\ ConvIdle

SpecSess == InitSess /\ [][SessNext]_vars

(***************************************************************************)
(* Properties of the per-session summary cache                             *)
(***************************************************************************)
SessionRows(f) ==
    {r \in session_cache : r.session_id = f[2] /\ r.project_folder = f[1]}

\* The validity test as the specification words it.
SessionEntryValid(f) ==
    \E r \in SessionRows(f) :
       /\ snow - r.cached_at <= 5
       /\ f \in DOMAIN files
       /\ get_file_hash(files[f]) = r.file_hash

\* get_cached_summary answers with the row's summary iff the row is valid.
SessionValidityTest ==
    sret.op = "get_cached_summary" =>
       /\ IsSome(sret.result) <=> SessionEntryValid(sret.file)
       /\ IsSome(sret.result) =>
             \E r \in SessionRows(sret.file) :
                Get(sret.result) =
                   SessionSummary(sret.file, r.summary, r.modified_at,
                                  r.size_bytes, r.total_messages)

\* After an absent answer list_sessions parses the file and its
\* save_to_cache leaves the entry refreshed.
SessionRefresh ==
    /\ (sret.op = "get_cached_summary" /\ sret.within = "list_sessions"
          /\ ~IsSome(sret.result)) => spc = "parse"
    /\ sret.op = "save_to_cache" =>
          /\ sret.status = "ok"
          /\ \E r \in SessionRows(sret.file) :
                /\ r.summary = sret.summary.summary
                /\ r.total_messages = sret.summary.total_messages
                /\ r.size_bytes = sret.summary.size_bytes
                /\ r.modified_at = sret.summary.modified_at
                /\ r.file_hash = get_file_hash(files[sret.file])
                /\ r.cached_at = snow

\* C7: get_cached_summary returns a cached summary only if now - cached_at
\* <= 5 minutes and the file exists and the hash of its (size, mtime)
\* equals the stored hash, and absent otherwise; list_sessions then
\* re-parses the file and refreshes summary fields, hash and cached_at.
C7_ValidOrRefreshed == SessionValidityTest /\ SessionRefresh

\* A hash mismatch within the TTL makes get_cached_summary answer absent.
SessionMismatchSeen ==
    /\ sret.op = "get_cached_summary" /\ ~IsSome(sret.result)
    /\ \E r \in SessionRows(sret.file) :
          /\ snow - r.cached_at <= 5
          /\ sret.file \in DOMAIN files
          /\ get_file_hash(files[sret.file]) # r.file_hash

\* C16: the per-session summary cache is keyed by the pair (session_id,
\* project_folder): caching the summary of a session file never fails, it
\* leaves an entry of its own for the pair, and the entries of the same
\* session_id under other project folders stay in the store.
C16_KeyedByPair ==
    sret.op = "save_to_cache" =>
       /\ sret.status = "ok"
       /\ Cardinality(SessionRows(sret.file)) = 1
       /\ \A g \in DOMAIN files :
             (g[2] = sret.file[2] /\ g # sret.file /\ spc = "idle")
                => SessionRows(g) # {}

(***************************************************************************)
(* The usage log loader (usage_service.py:155-273).                        *)
(* A line of a JSONL file is described by what the loader asks of it:      *)
(*   text       "blank" (empty after strip), "invalid" (json.loads raises  *)
(*              JSONDecodeError: not JSON, or a record cut short while it  *)
(*              is being written), "not_object" (JSON, but a list, string, *)
(*              number or null), "object";                                 *)
(*   type       obj["type"];                                               *)
(*   message    "object", or "not_object" (a string, list, number, null);  *)
(*   usage      "absent" (missing or falsy), "not_object" (truthy and not  *)
(*              a dict), "object";                                         *)
(*   tokens     the four counts of the usage object, in the order of       *)
(*              l.207-210, each Optional: None when the key is missing;    *)
(*   timestamp  Optional instant: None when the field is missing, is not a *)
(*              string or is not in ISO format.                            *)
(***************************************************************************)
MaxLines == 2
MaxLineTs == 1

Line(text, type, message, usage, tokens, timestamp) ==
    [text |-> text, type |-> type, message |-> message, usage |-> usage,
     tokens |-> tokens, timestamp |-> timestamp]

\* The counts of a usage object: all four given, or only some of the keys.
Tokens(i, o, cc, cr) == <<Some(i), Some(o), Some(cc), Some(cr)>>
InputOnly == <<Some(1), None, None, None>>
NoCounts == <<None, None, None, None>>

\* The lines the logging agent and others leave in a file.
LineShapes ==
    { Line("blank", "assistant", "object", "object", InputOnly, Some(0)),
      Line("invalid", "assistant", "object", "object", InputOnly, Some(0)),
      Line("not_object", "assistant", "object", "object", InputOnly, Some(0)),
      Line("object", "user", "object", "absent", NoCounts, Some(0)),
      Line("object", "assistant", "not_object", "absent", NoCounts, Some(0)),
      Line("object", "assistant", "object", "absent", NoCounts, Some(0)),
      Line("object", "assistant", "object", "not_object", NoCounts, Some(0)),
      Line("object", "assistant", "object", "object", Tokens(0, 0, 0, 0), Some(0)),
      Line("object", "assistant", "object", "object", NoCounts, Some(0)),
      Line("object", "assistant", "object", "object", Tokens(0, 0, 0, 3), Some(0)),
      Line("object", "assistant", "object", "object", InputOnly, None) }
    \cup { Line("object", "assistant", "object", "object", InputOnly, Some(t)) :
              t \in 0..MaxLineTs }

\* The JSONL files found by discover_jsonl_files (l.155-175), as
\* <<project folder, file stem>>, in the order found.
LoaderFiles == << <<"p", "s">>, <<"q", "t">> >>

\* usage.get(key, 0) (l.207-210).
TokenCount(x) == IF IsSome(x) THEN Get(x) ELSE 0

\* The test with a missing count not taken as zero.
NoTokens_NoDefault(tokens) == \A k \in 1..4 : tokens[k] = Some(0)

\* The test of l.213-218 on the four counts.
NoTokens(tokens) == \A k \in 1..4 : TokenCount(tokens[k]) = 0

\* What one pass of the loop body l.186-255 does with a line: "skip" (a
\* continue), "raise" (AttributeError from .get on a value that is not a
\* dict: l.198 obj.get, l.202 message.get, l.208 usage.get) or "entry".
\* Only json.JSONDecodeError (l.194) and the timestamp's ValueError and
\* AttributeError (l.228) are caught inside the loop.
LineOutcome(l) ==
    IF l.text = "blank" THEN "skip"
    ELSE IF l.text = "invalid" THEN "skip"
    ELSE IF l.text = "not_object" THEN "raise"
    ELSE IF l.type # "assistant" THEN "skip"
    ELSE IF l.message = "not_object" THEN "raise"
    ELSE IF l.usage = "absent" THEN "skip"
    ELSE IF l.usage = "not_object" THEN "raise"
    ELSE IF NoTokens(l.tokens) THEN "skip"
    ELSE IF ~IsSome(l.timestamp) THEN "skip"
    ELSE "entry"

\* The entry appended at l.240-253; sessionId is not in the record, so the
\* file stem stands for it.
EntryOfLine(l, f) ==
    LoadedUsageEntry(Get(l.timestamp),
                     Usage(TokenCount(l.tokens[1]), TokenCount(l.tokens[2]),
                           TokenCount(l.tokens[3]), TokenCount(l.tokens[4]),
                           None, "claude-3-haiku-20240307", None),
                     <<f[2]>>, <<f[1]>>)

\* The loop of parse_usage_from_jsonl from line i on.  The try of l.184
\* encloses the whole loop: an exception that is not caught inside ends the
\* reading of the file at l.255 and what was collected is returned.
RECURSIVE ParseFrom(_, _, _, _)
ParseFrom(lines, i, entries, f) ==
    IF i > Len(lines) THEN entries
    ELSE LET outcome == LineOutcome(lines[i]) IN
         IF outcome = "raise" THEN entries
         ELSE IF outcome = "skip" THEN ParseFrom(lines, i + 1, entries, f)
         ELSE ParseFrom(lines, i + 1, Append(entries, EntryOfLine(lines[i], f)), f)

\* parse_usage_from_jsonl (l.177-258).
parse_usage_from_jsonl(lines, f) == ParseFrom(lines, 1, <<>>, f)

\* all_entries.sort(key=lambda e: e.timestamp) (l.272): stable.
RECURSIVE SortByTimestamp(_)
SortByTimestamp(es) ==
    IF es = <<>> THEN <<>>
    ELSE LET rest == SortByTimestamp(Tail(es))
             x == Head(es)
             before == SelectSeq(rest, LAMBDA y : y.timestamp < x.timestamp)
             after == SelectSeq(rest, LAMBDA y : y.timestamp >= x.timestamp)
         IN  before \o <<x>> \o after

RECURSIVE ExtendAll(_, _)
ExtendAll(fs, k) ==
    IF k > Len(LoaderFiles) THEN <<>>
    ELSE parse_usage_from_jsonl(fs[k], LoaderFiles[k]) \o ExtendAll(fs, k + 1)

\* get_all_usage_entries (l.260-273) over the files with contents fs.
LoadAllUsageEntries(fs) == SortByTimestamp(ExtendAll(fs, 1))

\* A line is written at the end of a file; the second file is kept one
\* line shorter than the first.
LoaderWrite ==
    /\ lpc = "writing"
    /\ \E k \in 1..Len(LoaderFiles), l \in LineShapes :
          /\ Len(jsonl[k]) < MaxLines - (k - 1)
          /\ jsonl' = [jsonl EXCEPT ![k] = Append(@, l)]
    /\ UNCHANGED <<lpc, loaded, notLoader>>

\* get_all_usage_entries() is called.
LoaderLoad ==
    /\ lpc = "writing"
    /\ loaded' = LoadAllUsageEntries(jsonl)
    /\ lpc' = "loaded"
    /\ UNCHANGED <<jsonl, notLoader>>

LoaderInit ==
    /\ jsonl = [k \in 1..Len(LoaderFiles) |-> <<>>]
    /\ lpc = "writing"
    /\ loaded = <<>>

LoaderNext == LoaderWrite \/ LoaderLoad

InitLoader ==
    /\ LoaderInit
    /\ BlockIdle /\ AggIdle /\ CacheIdle /\ ConcIdle /\ SessIdle
    /\ PriceIdle /\ FilterIdle /\ ConvIdle

SpecLoader == InitLoader /\ [][LoaderNext]_vars

(***************************************************************************)
(* Properties of the loader                                                *)
(***************************************************************************)
\* The malformed lines: not valid JSON (or cut short), JSON that is not an
\* object, a message or usage that is not an object, a missing or invalid
\* timestamp.
IsMalformed(l) ==
    \/ l.text \in {"invalid", "not_object"}
    \/ /\ l.text = "object"
       /\ \/ l.message = "not_object"
          \/ l.usage = "not_object"
          \/ ~IsSome(l.timestamp)

WithoutMalformed(fs) ==
    [k \in DOMAIN fs |-> SelectSeq(fs[k], LAMBDA l : ~IsMalformed(l))]

\* C10: a malformed line produces no entry and no error, and the entries
\* produced from the other lines of the same file and of the other files
\* are exactly those produced when the malformed lines are absent.
C10_MalformedLinesAreSkipped ==
    lpc = "loaded" => loaded = LoadAllUsageEntries(WithoutMalformed(jsonl))

\* An assistant record with a usage object whose four counts are all zero
\* or missing.
IsZeroTokenRecord(l) ==
    /\ l.text = "object" /\ l.type = "assistant" /\ l.message = "object"
    /\ l.usage = "object"
    /\ \A k \in 1..4 : l.tokens[k] \in {None, Some(0)}

AllLines == UNION {Range(jsonl[k]) : k \in DOMAIN jsonl}

\* C17: every entry emitted by the loader has at least one non-zero token
\* count: an assistant record whose four counts are all zero or missing
\* yields no entry, and a log of such records only loads as the empty list.
C17_ZeroTokenRecordsAreDiscarded ==
    lpc = "loaded" =>
       /\ \A i \in 1..Len(loaded) :
             \/ loaded[i].input_tokens # 0
             \/ loaded[i].output_tokens # 0
             \/ loaded[i].cache_creation_tokens # 0
             \/ loaded[i].cache_read_tokens # 0
       /\ (\A l \in AllLines : IsZeroTokenRecord(l)) => loaded = <<>>
       /\ Len(loaded) <= Cardinality({<<k, i>> \in (DOMAIN jsonl) \X (1..MaxLines) :
                                        /\ i <= Len(jsonl[k])
                                        /\ ~IsZeroTokenRecord(jsonl[k][i])})

\* A log of two records, one with four zero counts and one with a usage
\* object that names no count, has been loaded.
C17_Witness ==
    /\ lpc = "loaded" /\ loaded = <<>>
    /\ \E l \in AllLines : IsZeroTokenRecord(l) /\ l.tokens = NoCounts
    /\ \E l \in AllLines : IsZeroTokenRecord(l) /\ l.tokens = Tokens(0, 0, 0, 0)
    /\ \A l \in AllLines : IsZeroTokenRecord(l)

\* A record whose only count is the cache-read count is loaded.
C17_CacheReadOnly ==
    /\ lpc = "loaded"
    /\ \E i \in 1..Len(loaded) :
          loaded[i].input_tokens = 0 /\ loaded[i].cache_read_tokens = 3

(***************************************************************************)
(* Calls of the pricing service (pricing_service.py:144-237)               *)
(***************************************************************************)
MaxTokens == 6
MaxRate == 3

\* The token counts a call is made with: below zero, around zero, and
\* around the threshold.
TokenCounts ==
    (-1..MaxTokens) \cup ((TIERED_THRESHOLD - 2)..(TIERED_THRESHOLD + MaxTokens))

\* An Optional rate (pricing.get(...) of l.212-234).
OptionalRates == {None} \cup {Some(r) : r \in 0..MaxRate}

\* The model names a call is made with.
ModelNames == (DOMAIN MODEL_PRICING) \cup {"unknown"}

\* calculate_tiered_cost(total_tokens, base_price, tiered_price) is called
\* with the default threshold.
PriceTiered ==
    /\ \E total_tokens \in TokenCounts, base_price \in OptionalRates :
       \E tiered_price \in OptionalRates :
          /\ pcall' = [op |-> "calculate_tiered_cost",
                       total_tokens |-> total_tokens, base_price |-> base_price,
                       tiered_price |-> tiered_price,
                       threshold |-> TIERED_THRESHOLD]
          /\ pret' = calculate_tiered_cost(total_tokens, base_price,
                                           tiered_price, TIERED_THRESHOLD)
    /\ UNCHANGED notPrice

\* calculate_cost(input, output, cache_creation, cache_read, model) is
\* called.
PriceCost ==
    /\ \E i \in {0, 150, 250}, o \in {0, 201}, cc \in {0, 350}, cr \in {0, 200} :
       \E model \in {None} \cup {Some(m) : m \in ModelNames} :
          /\ pcall' = [op |-> "calculate_cost", input_tokens |-> i,
                       output_tokens |-> o, cache_creation_tokens |-> cc,
                       cache_read_tokens |-> cr, model |-> model]
          /\ pret' = calculate_cost(i, o, cc, cr, model)
    /\ UNCHANGED notPrice

PriceInit == pcall = [op |-> "init"] /\ pret = 0

PriceNext == PriceTiered \/ PriceCost

InitPrice ==
    /\ PriceInit
    /\ BlockIdle /\ AggIdle /\ CacheIdle /\ ConcIdle /\ SessIdle
    /\ LoaderIdle /\ FilterIdle /\ ConvIdle

SpecPrice == InitPrice /\ [][PriceNext]_vars

(***************************************************************************)
(* Properties of the pricing service                                       *)
(***************************************************************************)
\* An absent rate counts as 0.
RateOr0(r) == IF IsSome(r) THEN Get(r) ELSE 0

\* The three cases of the tiered cost, written out.
TieredCostCases(t, base, tiered, threshold) ==
    IF t <= 0 THEN 0
    ELSE IF t > threshold /\ IsSome(tiered)
    THEN (t - threshold) * Get(tiered) + threshold * RateOr0(base)
    ELSE t * RateOr0(base)

\* C11: calculate_tiered_cost returns 0 for total_tokens <= 0, (total -
\* threshold) * tiered + threshold * base above the threshold when a tiered
\* rate exists, and total * base otherwise (an absent base counting as 0);
\* calculate_cost is the sum of it over the four token categories with that
\* category's rates, and 0 when the model is unspecified or has no pricing
\* table.
C11_TieredCostCases ==
    /\ pcall.op = "calculate_tiered_cost" =>
          pret = TieredCostCases(pcall.total_tokens, pcall.base_price,
                                 pcall.tiered_price, pcall.threshold)
    /\ pcall.op = "calculate_cost" =>
          IF ~IsSome(pcall.model) \/ Get(pcall.model) \notin DOMAIN MODEL_PRICING
          THEN pret = 0
          ELSE LET p == MODEL_PRICING[Get(pcall.model)] IN
               pret = TieredCostCases(pcall.input_tokens, p.input,
                                      p.input_above_200k, TIERED_THRESHOLD)
                      + TieredCostCases(pcall.output_tokens, p.output,
                                        p.output_above_200k, TIERED_THRESHOLD)
                      + TieredCostCases(pcall.cache_creation_tokens,
                                        p.cache_creation,
                                        p.cache_creation_above_200k,
                                        TIERED_THRESHOLD)
                      + TieredCostCases(pcall.cache_read_tokens, p.cache_read,
                                        p.cache_read_above_200k,
                                        TIERED_THRESHOLD)

\* A call above the threshold with both rates: 3 tokens above, base 2,
\* tiered 3.
C11_Witness ==
    /\ pcall.op = "calculate_tiered_cost"
    /\ pcall.total_tokens = TIERED_THRESHOLD + 3
    /\ pcall.base_price = Some(2) /\ pcall.tiered_price = Some(3)
    /\ pret = 3 * 3 + TIERED_THRESHOLD * 2

\* The cost of the same call with other token counts.
CostAt(t) ==
    calculate_tiered_cost(t, pcall.base_price, pcall.tiered_price,
                          pcall.threshold)

\* C20: for non-negative rates calculate_tiered_cost is non-decreasing in
\* total_tokens, equals base * threshold at the threshold, and k tokens
\* above the threshold it equals the cost at the threshold plus k times the
\* marginal rate (the tiered rate, or the base rate where no tiered rate
\* exists): crossing the threshold adds no jump.
C20_MonotonicAndContinuous ==
    pcall.op = "calculate_tiered_cost" =>
       /\ pret = CostAt(pcall.total_tokens)
       /\ CostAt(pcall.total_tokens + 1) >= pret
       /\ pcall.total_tokens = pcall.threshold =>
             pret = RateOr0(pcall.base_price) * pcall.threshold
       /\ pcall.total_tokens > pcall.threshold =>
             pret = CostAt(pcall.threshold)
                    + (pcall.total_tokens - pcall.threshold)
                      * (IF IsSome(pcall.tiered_price)
                         THEN Get(pcall.tiered_price)
                         ELSE RateOr0(pcall.base_price))

\* One token above the threshold, tiered rate below the base rate.
C20_Witness ==
    /\ pcall.op = "calculate_tiered_cost"
    /\ pcall.total_tokens = pcall.threshold + 1
    /\ pcall.base_price = Some(3) /\ pcall.tiered_price = Some(1)
    /\ pret = 3 * TIERED_THRESHOLD + 1

(***************************************************************************)
(* The date-range queries get_daily_usage(start_date, end_date) and        *)
(* get_monthly_usage(start_month, end_month) (usage_service.py:687-828),   *)
(* without a cache store.  A date "YYYY-MM-DD" is the number YYYYMMDD and  *)
(* a month "YYYY-MM" the number YYYYMM.  The loaded timestamps are aware   *)
(* (tzinfo UTC) when the log records carry a designator ("Z" or an         *)
(* offset, l.225-227) and naive when they carry none; strptime gives a     *)
(* naive datetime, and Python raises TypeError when an aware datetime is   *)
(* compared with a naive one.                                              *)
(***************************************************************************)
\* datetime.strptime(date, "%Y-%m-%d") (l.706, 709) as an instant.
strptime_Ymd(date) ==
    IF date = 20241231 THEN 0
    ELSE IF date \div 100 = 202501 THEN (date % 100) * TicksPerDay
    ELSE (31 + (date % 100)) * TicksPerDay

\* datetime.strptime(f"{month}-01", "%Y-%m-%d") (l.793, 797) as an instant.
strptime_Ym01(month) ==
    IF month = 202412 THEN (0 - 30) * TicksPerDay
    ELSE IF month = 202501 THEN TicksPerDay
    ELSE 32 * TicksPerDay

\* l.799-802: the start of the following month.
NextMonthStart(month) ==
    IF month % 100 = 12
    THEN strptime_Ym01((month \div 100 + 1) * 100 + 1)
    ELSE strptime_Ym01(month + 1)

\* The dates and months asked for.
FilterDates == {strftime_Ymd(d * TicksPerDay) : d \in 0..MaxDay}
FilterMonths == {202412, 202501}

\* e.timestamp >= start_dt, e.timestamp < end_dt over a list (l.707, 710,
\* 794, 803): the comparison raises when the entries are aware.
ComparisonRaises(entries, tz) == entries # <<>> /\ tz = "utc"

\* MonthlyUsageListResponse of get_monthly_usage (l.805-820).
MonthlyUsageListResponse(entries) ==
    LET monthly_data == aggregate_by_monthly(entries) IN
    [data |-> monthly_data,
     totals |-> [input_tokens |-> SumOver(monthly_data, F_row_input),
                 output_tokens |-> SumOver(monthly_data, F_row_output),
                 cache_creation_tokens |-> SumOver(monthly_data, F_row_cache_creation),
                 cache_read_tokens |-> SumOver(monthly_data, F_row_cache_read)],
     total_cost |-> SumOver(monthly_data, F_row_cost)]

\* get_daily_usage (l.687-732) with self.db None: Optional response, None
\* when the call raises.
get_daily_usage(entries, tz, start_date, end_date) ==
    IF IsSome(start_date) /\ ComparisonRaises(entries, tz) THEN None
    ELSE LET from_start ==
                IF IsSome(start_date)
                THEN SelectSeq(entries, LAMBDA e :
                        e.timestamp >= strptime_Ymd(Get(start_date)))
                ELSE entries
         IN  IF IsSome(end_date) /\ ComparisonRaises(from_start, tz) THEN None
             ELSE Some(DailyUsageListResponse(
                     IF IsSome(end_date)
                     THEN SelectSeq(from_start, LAMBDA e :
                             e.timestamp < strptime_Ymd(Get(end_date)) + TicksPerDay)
                     ELSE from_start))

\* get_monthly_usage (l.775-828) with self.db None.
get_monthly_usage(entries, tz, start_month, end_month) ==
    IF IsSome(start_month) /\ ComparisonRaises(entries, tz) THEN None
    ELSE LET from_start ==
                IF IsSome(start_month)
                THEN SelectSeq(entries, LAMBDA e :
                        e.timestamp >= strptime_Ym01(Get(start_month)))
                ELSE entries
         IN  IF IsSome(end_month) /\ ComparisonRaises(from_start, tz) THEN None
             ELSE Some(MonthlyUsageListResponse(
                     IF IsSome(end_month)
                     THEN SelectSeq(from_start, LAMBDA e :
                             e.timestamp < NextMonthStart(Get(end_month)))
                     ELSE from_start))

\* get_all_usage_entries loads one more record, not earlier than the last.
FilterLoad ==
    /\ agg_view = "load"
    /\ Len(agg_entries) < MaxAggEntries
    /\ \E ts \in AggTimes :
          /\ agg_entries # <<>> => ts >= Last(agg_entries).timestamp
          /\ agg_entries' =
                Append(agg_entries,
                       LoadedUsageEntry(ts, Usage(1, 2, 0, 3, None,
                                                  "claude-3-haiku-20240307", None),
                                        <<"s">>, <<"p">>))
    /\ UNCHANGED <<agg_view, agg_rows, filterVars, notFilter>>

FilterDaily ==
    /\ agg_view = "load"
    /\ \E start_date \in {None} \cup {Some(d) : d \in FilterDates} :
       \E end_date \in {None} \cup {Some(d) : d \in FilterDates} :
          LET response == get_daily_usage(agg_entries, tzinfo, start_date, end_date)
          IN  fret' = [op |-> "get_daily_usage", start |-> start_date,
                       end |-> end_date,
                       status |-> IF IsSome(response) THEN "ok" ELSE "raised",
                       result |-> response]
    /\ agg_view' = "daily"
    /\ UNCHANGED <<agg_entries, agg_rows, tzinfo, notFilter>>

FilterMonthly ==
    /\ agg_view = "load"
    /\ \E start_month \in {None} \cup {Some(d) : d \in FilterMonths} :
       \E end_month \in {None} \cup {Some(d) : d \in FilterMonths} :
          LET response == get_monthly_usage(agg_entries, tzinfo, start_month, end_month)
          IN  fret' = [op |-> "get_monthly_usage", start |-> start_month,
                       end |-> end_month,
                       status |-> IF IsSome(response) THEN "ok" ELSE "raised",
                       result |-> response]
    /\ agg_view' = "monthly"
    /\ UNCHANGED <<agg_entries, agg_rows, tzinfo, notFilter>>

FilterInit ==
    /\ AggInit
    /\ tzinfo \in {"utc", "none"}
    /\ fret = [op |-> "init"]

FilterNext == FilterLoad \/ FilterDaily \/ FilterMonthly

InitFilter ==
    /\ FilterInit
    /\ BlockIdle /\ CacheIdle /\ ConcIdle /\ SessIdle /\ LoaderIdle
    /\ PriceIdle /\ ConvIdle

SpecFilter == InitFilter /\ [][FilterNext]_vars

(***************************************************************************)
(* Properties of the date-range queries                                    *)
(***************************************************************************)
\* The entries of the range [from, to).
InRange(entries, from, to) ==
    SelectSeq(entries, LAMBDA e : from <= e.timestamp /\ e.timestamp < to)

\* The bounds of the range asked for; an absent bound leaves the side open.
RangeFrom(call) ==
    IF ~IsSome(call.start) THEN 0 - 100 * TicksPerDay
    ELSE IF call.op = "get_daily_usage" THEN strptime_Ymd(Get(call.start))
    ELSE strptime_Ym01(Get(call.start))

RangeTo(call) ==
    IF ~IsSome(call.end) THEN 100 * TicksPerDay
    ELSE IF call.op = "get_daily_usage"
    THEN strptime_Ymd(Get(call.end)) + TicksPerDay
    ELSE NextMonthStart(Get(call.end))

RangeAnswer(call) ==
    IF call.op = "get_daily_usage"
    THEN DailyUsageListResponse(InRange(agg_entries, RangeFrom(call), RangeTo(call)))
    ELSE MonthlyUsageListResponse(InRange(agg_entries, RangeFrom(call), RangeTo(call)))

\* C12: for entries whose timestamps carry a UTC designator,
\* get_daily_usage aggregates exactly the entries with start_date 00:00 <= t
\* < (end_date + 1 day) 00:00 and get_monthly_usage exactly those with first
\* day of start_month <= t < first day of the month after end_month.
C12_DateRangeFilter ==
    (fret.op \in {"get_daily_usage", "get_monthly_usage"} /\ tzinfo = "utc") =>
       /\ fret.status = "ok"
       /\ fret.result = Some(RangeAnswer(fret))

\* The same for entries whose timestamps carry no designator.
NaiveDateRangeFilter ==
    (fret.op \in {"get_daily_usage", "get_monthly_usage"} /\ tzinfo = "none") =>
       /\ fret.status = "ok"
       /\ fret.result = Some(RangeAnswer(fret))

(***************************************************************************)
(* Properties of the burn rate and the projections                         *)
(***************************************************************************)
ProjectionFields(b) ==
    <<b.burn_rate_tokens_per_minute, b.burn_rate_cost_per_hour,
      b.projected_total_tokens, b.projected_total_cost, b.remaining_minutes>>

AllPresent(b) == \A k \in 1..5 : IsSome(ProjectionFields(b)[k])
AllAbsent(b) == \A k \in 1..5 : ~IsSome(ProjectionFields(b)[k])

BlockTokens(b) ==
    b.input_tokens + b.output_tokens + b.cache_creation_tokens
    + b.cache_read_tokens

\* C13: in every block the five projection fields are all present or all
\* absent; they are present iff the block is real, active, has at least 2
\* entries and its first and last entry differ in time; when present,
\* remaining_minutes >= 0 and projected_total_tokens >= the block's total
\* tokens.  No division by zero occurs: every block is built.
C13_Projections ==
    \A j \in 1..Len(blocks) :
       LET b == blocks[j] IN
       /\ AllPresent(b) \/ AllAbsent(b)
       /\ AllPresent(b) <=>
             /\ ~b.is_gap /\ b.is_active /\ b.n_entries >= 2
             /\ sorted_entries[FirstIdx(j)].timestamp
                   # sorted_entries[LastIdx(j)].timestamp
       /\ AllPresent(b) =>
             /\ Get(b.remaining_minutes) >= 0
             /\ Get(b.projected_total_tokens) >= BlockTokens(b) * 1000
             /\ Get(b.burn_rate_tokens_per_minute).den > 0
             /\ Get(b.burn_rate_cost_per_hour).den > 0

\* The blocks returned hold an active block with projections.
C13_Witness ==
    /\ bpc = "done"
    /\ \E j \in 1..Len(blocks) :
          /\ AllPresent(blocks[j])
          /\ Get(blocks[j].remaining_minutes) > 0
          /\ Get(blocks[j].projected_total_tokens) > BlockTokens(blocks[j]) * 1000

\* An active block of two entries of the same instant has no projections.
C13_ZeroDuration ==
    /\ bpc = "done"
    /\ \E j \in 1..Len(blocks) :
          /\ blocks[j].is_active /\ blocks[j].n_entries = 2
          /\ AllAbsent(blocks[j])

(***************************************************************************)
(* Block queries: get_block_usage (usage_service.py:830-882)               *)
(*                                                                         *)
(* The handler is run against the query-result cache of SpecCache: clock   *)
(* counts minutes, the instants of entries and blocks are ticks.  Entries  *)
(* lie on the tick grid, so between two ticks the tests of _create_block   *)
(* on now give what they give at the earlier tick; the cutoff of           *)
(* _filter_recent_blocks and the cache age are taken in minutes.           *)
(***************************************************************************)
DEFAULT_RECENT_DAYS == 3
MaxBlockLog == 2     \* most usage records in the log files
LeadMinutes == 2     \* the first request comes this long before a full tick
MaxWait == 6         \* minutes that pass after the first request

\* identify_session_blocks (l.433-505) as a function of its input: the loop
\* of LoopBody from the state (start, cur, out) over the entries es.
RECURSIVE Segment(_, _, _, _, _)
Segment(es, start, cur, out, now_) ==
    IF es = <<>>
    THEN IF IsSome(start) /\ cur # <<>>
         THEN Append(out, _create_block(Get(start), cur, now_))
         ELSE out
    ELSE LET entry == Head(es)
             entry_time == entry.timestamp
         IN  IF ~IsSome(start)
             THEN Segment(Tail(es), Some(_floor_to_hour(entry_time)), <<entry>>,
                          out, now_)
             ELSE LET time_since_start == entry_time - Get(start)
                      last_entry == Last(cur)
                      time_since_last == entry_time - last_entry.timestamp
                  IN  IF ClosesBlock(time_since_start, time_since_last)
                      THEN LET block == _create_block(Get(start), cur, now_)
                               gap_block == IF EmitsGap(time_since_last)
                                            THEN _create_gap_block(
                                                    last_entry.timestamp, entry_time)
                                            ELSE None
                           IN  Segment(Tail(es), Some(_floor_to_hour(entry_time)),
                                       <<entry>>, out \o <<block>> \o gap_block,
                                       now_)
                      ELSE Segment(Tail(es), start, Append(cur, entry), out, now_)

identify_session_blocks(entries, now_) ==
    IF entries = <<>> THEN <<>>
    ELSE Segment(SortByTimestamp(entries), None, <<>>, <<>>, now_)

MinutesPerDay == 24 * 60

\* The tick that is running at minute m.
TickOf(m) == m \div MinutesPerTick

\* The test of l.619 with > for >=.
IsRecent_After(start_time, is_active, cutoff) ==
    start_time * MinutesPerTick > cutoff \/ is_active

\* The test of l.619: cutoff in minutes, start_time in ticks.
IsRecent(start_time, is_active, cutoff) ==
    start_time * MinutesPerTick >= cutoff \/ is_active

\* _filter_recent_blocks (l.610-621) at minute now_.
_filter_recent_blocks(bs, now_) ==
    LET cutoff == now_ - DEFAULT_RECENT_DAYS * MinutesPerDay IN
    SelectSeq(bs, LAMBDA block : IsRecent(block.start_time, block.is_active, cutoff))

\* blocks.sort(key=start_time, reverse=True) (l.869): stable.
RECURSIVE SortByStartDesc(_)
SortByStartDesc(bs) ==
    IF bs = <<>> THEN <<>>
    ELSE LET rest == SortByStartDesc(Tail(bs))
             x == Head(bs)
             before == SelectSeq(rest, LAMBDA y : y.start_time > x.start_time)
             after == SelectSeq(rest, LAMBDA y : y.start_time <= x.start_time)
         IN  before \o <<x>> \o after

F_block_cost(b) == b.cost_usd

\* non_gap_blocks (l.857).
NonGapBlocks(bs) == SelectSeq(bs, LAMBDA b : ~b.is_gap)

\* next((b for b in blocks if b.is_active), None) (l.854-855).
ActiveBlock(bs) ==
    LET actives == SelectSeq(bs, LAMBDA b : b.is_active) IN
    IF actives = <<>> THEN None ELSE Some(Head(actives))

\* The response built from the segmented blocks (l.845-876) at minute now_.
BlockUsageListResponse(all_blocks, recent, active, now_) ==
    LET recent_blocks == IF recent THEN _filter_recent_blocks(all_blocks, now_)
                         ELSE all_blocks
        bs == IF active THEN SelectSeq(recent_blocks, LAMBDA b : b.is_active)
              ELSE recent_blocks
        non_gap_blocks == NonGapBlocks(bs)
    IN  [data |-> SortByStartDesc(bs),
         active_block |-> ActiveBlock(bs),
         totals |-> [input_tokens |-> SumOver(non_gap_blocks, F_input),
                     output_tokens |-> SumOver(non_gap_blocks, F_output),
                     cache_creation_tokens |->
                        SumOver(non_gap_blocks, F_cache_creation),
                     cache_read_tokens |-> SumOver(non_gap_blocks, F_cache_read)],
         total_cost |-> SumOver(non_gap_blocks, F_block_cost)]

\* str() of a bool in the cache key.
BoolStr(b) == IF b THEN <<"True">> ELSE <<"False">>

\* get_block_usage(project_path=None, recent, active) (l.830-882).
get_block_usage(recent, active) ==
    LET cache_key == get_cache_key("block", None,
                        <<(<<"active", Some(BoolStr(active))>>),
                          (<<"recent", Some(BoolStr(recent))>>)>>)
        cached == get_from_cache(usage_cache, cache_key, clock)
        entries == get_all_usage_entries(None)
        all_blocks == identify_session_blocks(entries, TickOf(clock))
        response == BlockUsageListResponse(all_blocks, recent, active, clock)
        call == [op |-> "get_block_usage", recent |-> recent, active |-> active,
                 key |-> cache_key, status |-> "ok"]
    IN  IF IsSome(cached)
        THEN /\ ret' = call @@ [result |-> Get(cached), from_cache |-> TRUE]
             /\ usage_cache' = usage_cache
        ELSE /\ usage_cache' = save_to_cache(usage_cache, cache_key, "block",
                                             response, None, clock)
             /\ ret' = call @@ [result |-> response, from_cache |-> FALSE]

BlockQuery ==
    /\ \E recent \in BOOLEAN, active \in BOOLEAN : get_block_usage(recent, active)
    /\ UNCHANGED <<clock, log, db_configured, saved, notCache>>

\* Time passes between two requests, LeadMinutes at a time.
BlockQueryTick ==
    /\ (clock + LeadMinutes) % MinutesPerTick < MaxWait
    /\ clock' = clock + LeadMinutes
    /\ ret' = [op |-> "tick"]
    /\ UNCHANGED <<log, db_configured, usage_cache, saved, notCache>>

\* The instants of the usage records, and the full ticks the requests are
\* made around: the nominal end of the block of the early records, three
\* days after the record of hour 4, the nominal end of the late block.
BlockLogTimes == {0, Hours(4), Hours(80)}
BlockQueryTimes == {Hours(5), Hours(4) + DEFAULT_RECENT_DAYS * Hours(24), Hours(85)}

\* The logs: at most MaxBlockLog records by timestamp, none of them later
\* than the first request.
BlockLogs(first) ==
    {l \in UNION {[1..n -> BlockLogTimes] : n \in 0..MaxBlockLog} :
        /\ \A i \in 1..Len(l) : l[i] * MinutesPerTick <= first
        /\ \A i \in 1..(Len(l) - 1) : l[i] <= l[i + 1]}

BlockQueryInit ==
    /\ clock \in {t * MinutesPerTick - LeadMinutes : t \in BlockQueryTimes}
    /\ \E l \in BlockLogs(clock) : log = [i \in 1..Len(l) |-> BlockEntry(l[i], i)]
    /\ db_configured \in BOOLEAN
    /\ usage_cache = {} /\ ret = [op |-> "init"] /\ saved = {}

BlockQueryNext == BlockQuery \/ BlockQueryTick

InitBlockQuery ==
    /\ BlockQueryInit
    /\ BlockIdle /\ AggIdle /\ ConcIdle /\ SessIdle /\ LoaderIdle
    /\ PriceIdle /\ FilterIdle /\ ConvIdle

SpecBlockQuery == InitBlockQuery /\ [][BlockQueryNext]_vars

(***************************************************************************)
(* Properties of get_block_usage                                           *)
(***************************************************************************)
\* is_active of a block as l.521-523 give it at the minute of the clock.
ActiveNow(b) ==
    /\ ~b.is_gap
    /\ (clock - Get(b.actual_end_time) * MinutesPerTick)
          < SESSION_DURATION_HOURS * 60
    /\ clock < b.end_time * MinutesPerTick

\* C14: blocks are recomputed on every get_block_usage request: for every
\* block of every response, is_active is the predicate evaluated at the
\* time of that request; no response reports as active a block whose
\* nominal end has passed.
C14_BlocksAreFresh ==
    (ret.op = "get_block_usage") =>
       \A j \in 1..Len(ret.result.data) :
          LET b == ret.result.data[j] IN
          /\ b.is_active = ActiveNow(b)
          /\ b.is_active => clock < b.end_time * MinutesPerTick

\* The same for the responses computed at the request.
ComputedBlocksAreFresh ==
    (ret.op = "get_block_usage" /\ ~ret.from_cache) =>
       \A j \in 1..Len(ret.result.data) :
          ret.result.data[j].is_active = ActiveNow(ret.result.data[j])

\* The segmenter run step by step returns what the function returns.
SegmentIsTheLoop ==
    (bpc = "done") => blocks = identify_session_blocks(sorted_entries, now)

\* The blocks a request with the flags of ret is to return, taken from the
\* log and the minute of the request.
WithinLastDays(b) ==
    b.start_time * MinutesPerTick >= clock - DEFAULT_RECENT_DAYS * MinutesPerDay

ExpectedBlocks ==
    LET all == identify_session_blocks(log, TickOf(clock))
        kept == SelectSeq(all, LAMBDA b :
                   /\ ret.recent => (WithinLastDays(b) \/ b.is_active)
                   /\ ret.active => b.is_active)
    IN  Range(kept)

\* What every response says of its own blocks: with active=true only active
\* blocks; totals and total_cost summed over the returned blocks that are
\* no gaps; active_block absent or a returned block with is_active.
ResponseIsConsistent(r, active) ==
    LET real == SelectSeq(r.data, LAMBDA b : ~b.is_gap) IN
    /\ active => \A j \in 1..Len(r.data) : r.data[j].is_active
    /\ r.totals.input_tokens = SumOver(real, F_input)
    /\ r.totals.output_tokens = SumOver(real, F_output)
    /\ r.totals.cache_creation_tokens = SumOver(real, F_cache_creation)
    /\ r.totals.cache_read_tokens = SumOver(real, F_cache_read)
    /\ r.total_cost = SumOver(real, F_block_cost)
    /\ IsSome(r.active_block) =>
          /\ Get(r.active_block) \in Range(r.data)
          /\ Get(r.active_block).is_active

C19_AtCutoff ==
    /\ ret.op = "get_block_usage" /\ ret.recent /\ ~ret.from_cache
    /\ \E j \in 1..Len(ret.result.data) :
          /\ ~ret.result.data[j].is_active
          /\ ret.result.data[j].start_time * MinutesPerTick
                = clock - DEFAULT_RECENT_DAYS * MinutesPerDay

(***************************************************************************)
(* save_to_cache and get_from_cache called by themselves                   *)
(* (usage_service.py:83-133)                                               *)
(***************************************************************************)
\* save_to_cache(cache_key, cache_type, data, project_path) with the data a
\* query would save at the present state of the log.
CacheSave ==
    /\ \E q \in Requests :
          LET key == QueryKey(q.kind, q.project_path)
              data == ComputeFromSource(q.kind, q.project_path)
          IN  /\ usage_cache' = save_to_cache(usage_cache, key, q.kind, data,
                                              q.project_path, clock)
              /\ saved' = IF db_configured
                          THEN Remember(key, data, Len(log))
                          ELSE saved
              /\ ret' = [op |-> "save_to_cache", key |-> key, status |-> "ok",
                         existed |-> IsSome(SelectUsageCache(usage_cache, key))]
    /\ UNCHANGED <<clock, log, db_configured, notCache>>

UpsertNext == CacheSave \/ CacheGet \/ CacheTick \/ CacheAppend

SpecUpsert == InitCache /\ [][UpsertNext]_vars

\* C15: save_to_cache is an upsert: the store holds at most one entry per
\* cache key, and that entry carries the data and the cached-at time of the
\* most recent save for that key; a save leaves the entries of other keys
\* as they were.
C15_SaveIsUpsert ==
    db_configured =>
       /\ \A r1 \in usage_cache, r2 \in usage_cache :
             r1.cache_key = r2.cache_key => r1 = r2
       /\ \A r \in usage_cache : LastSave(r.cache_key) # {}
       /\ \A h \in saved :
             \E r \in usage_cache :
                r.cache_key = h.key /\ r.data = h.data /\ r.cached_at = h.at

\* A save to a key that holds an entry of an earlier minute and other data,
\* next to an entry of another key saved before.
C15_Witness ==
    /\ ret.op = "save_to_cache" /\ ret.existed /\ db_configured
    /\ \E r \in usage_cache :
          /\ r.cache_key = ret.key /\ r.cached_at = clock /\ clock > 0
          /\ r.data = ComputeFromSource(r.cache_type, r.project_path)
          /\ log # <<>>
    /\ \E r \in usage_cache : r.cache_key # ret.key /\ r.cached_at < clock

(***************************************************************************)
(* Order of the session rows                                               *)
(***************************************************************************)
\* The latest timestamp among the entries of a row's partition.
RowLatest(row) ==
    LET part == RowPartition(row) IN
    CHOOSE t \in Range(TimesOf(part)) : \A u \in Range(TimesOf(part)) : u <= t

\* C18: aggregate_by_session returns its rows by descending last-activity
\* timestamp, the latest entry timestamp of the partition: of any two rows
\* the one whose latest entry is later comes first, also when both latest
\* entries fall on the same calendar day.
C18_SessionsByLastActivity ==
    agg_view = "session" =>
       \A i \in 1..Len(agg_rows), j \in 1..Len(agg_rows) :
          RowLatest(agg_rows[i]) > RowLatest(agg_rows[j]) => i < j

\* The same for rows whose latest entries fall on different days.
SessionsByLastActivityDay ==
    agg_view = "session" =>
       \A i \in 1..Len(agg_rows), j \in 1..Len(agg_rows) :
          DayIndex(RowLatest(agg_rows[i])) > DayIndex(RowLatest(agg_rows[j]))
             => i < j

(***************************************************************************)
(* Partition of the session view                                           *)
(***************************************************************************)
PairsOf(es) == {<<es[i].project_path, es[i].session_id>> : i \in 1..Len(es)}

\* C21: aggregate_by_session partitions the entries by the pair
\* (project_path, session_id): one row per distinct pair of the input, and
\* the project_path and session_id of a row are those of every entry
\* aggregated into it, also for names that contain ":".
C21_SessionPartition ==
    agg_view = "session" =>
       /\ Len(agg_rows) = Cardinality(PairsOf(agg_entries))
       /\ \A j \in 1..Len(agg_rows) :
             PairsOf(RowPartition(agg_rows[j]))
                = {<<agg_rows[j].project_path, agg_rows[j].session_id>>}

\* The same for names without ":".
SessionPartitionWithoutColon ==
    (agg_view = "session"
       /\ \A i \in 1..Len(agg_entries) :
             ":" \notin Range(agg_entries[i].project_path)) =>
       /\ Len(agg_rows) = Cardinality(PairsOf(agg_entries))
       /\ \A j \in 1..Len(agg_rows) :
             PairsOf(RowPartition(agg_rows[j]))
                = {<<agg_rows[j].project_path, agg_rows[j].session_id>>}

(***************************************************************************)
(* Windows, order and partition of the blocks                              *)
(***************************************************************************)
\* C22: the real blocks emitted by identify_session_blocks have pairwise
\* disjoint nominal windows in emission order: each starts at or after the
\* nominal end (start + 5 hours) of the real block before it; the ids of
\* the real blocks are pairwise distinct.
C22_DisjointWindows ==
    /\ \A j \in 1..(Len(RealBlocks) - 1) :
          RealBlocks[j + 1].start_time >= RealBlocks[j].start_time + Hours(5)
    /\ \A i \in 1..Len(RealBlocks), j \in 1..Len(RealBlocks) :
          RealBlocks[i].id = RealBlocks[j].id => i = j

\* Two real blocks have been returned, the second starting at the very
\* nominal end of the first.
C22_Witness ==
    /\ bpc = "done" /\ Len(RealBlocks) >= 2
    /\ RealBlocks[2].start_time = RealBlocks[1].start_time + Hours(5)

\* C23: the block list returned by identify_session_blocks is in
\* non-decreasing start-time order, and every gap block lies between its
\* neighbours: it starts at or after the nominal end of the real block
\* before it and ends at or before the start of the real block after it.
C23_GapsBetweenNeighbours ==
    bpc = "done" =>
       /\ \A j \in 1..(Len(blocks) - 1) :
             blocks[j].start_time <= blocks[j + 1].start_time
       /\ \A j \in 1..Len(blocks) :
             blocks[j].is_gap =>
                /\ j > 1 /\ j < Len(blocks)
                /\ ~blocks[j - 1].is_gap /\ ~blocks[j + 1].is_gap
                /\ blocks[j].start_time >= blocks[j - 1].end_time
                /\ blocks[j].end_time <= blocks[j + 1].start_time

\* What holds of a gap block: it follows a real block, starts at or after
\* that block's nominal end, and ends at the first entry of the real block
\* after it.
GapEndsAtNextEntry ==
    bpc = "done" =>
       \A j \in 1..Len(blocks) :
          blocks[j].is_gap =>
             /\ j > 1 /\ j < Len(blocks)
             /\ ~blocks[j - 1].is_gap /\ ~blocks[j + 1].is_gap
             /\ blocks[j].start_time >= blocks[j - 1].end_time
             /\ blocks[j].end_time = sorted_entries[FirstIdx(j + 1)].timestamp
             /\ blocks[j + 1].start_time = _floor_to_hour(blocks[j].end_time)

\* The entries counted in blocks[j].
EntriesOfBlock(j) == SubSeq(sorted_entries, FirstIdx(j), LastIdx(j))

C24_Cost(e) ==
    IF e.cost_usd # None THEN e.cost_usd[1]
    ELSE calculate_cost(e.input_tokens, e.output_tokens, e.cache_creation_tokens,
                        e.cache_read_tokens, Some(e.model))

\* C24: segmentation is a partition of the input: every input entry is
\* counted in exactly one real block, every entry counted in a block has a
\* timestamp within [block start, block start + 5 hours], actual_end_time
\* is the latest timestamp of the block's entries, and the sums of each
\* token count and of cost over the real blocks are the sums over the
\* input entries.
C24_SegmentationIsPartition ==
    bpc = "done" =>
       /\ Len(blocks) > 0 => LastIdx(Len(blocks)) = Len(sorted_entries)
       /\ blocks = <<>> => sorted_entries = <<>>
       /\ \A j \in 1..Len(blocks) :
             LET b == blocks[j]
                 es == EntriesOfBlock(j)
             IN  /\ b.is_gap => b.n_entries = 0
                 /\ ~b.is_gap =>
                       /\ b.n_entries >= 1
                       /\ \A i \in 1..Len(es) :
                             /\ b.start_time <= es[i].timestamp
                             /\ es[i].timestamp <= b.start_time + Hours(5)
                             /\ es[i].timestamp <= Get(b.actual_end_time)
                       /\ \E i \in 1..Len(es) :
                             es[i].timestamp = Get(b.actual_end_time)
                       /\ b.input_tokens = SumOver(es, F_input)
                       /\ b.output_tokens = SumOver(es, F_output)
                       /\ b.cache_creation_tokens = SumOver(es, F_cache_creation)
                       /\ b.cache_read_tokens = SumOver(es, F_cache_read)
                       /\ b.cost_usd = SumOver(es, C24_Cost)
       /\ SumOver(RealBlocks, F_input) = SumOver(sorted_entries, F_input)
       /\ SumOver(RealBlocks, F_output) = SumOver(sorted_entries, F_output)
       /\ SumOver(RealBlocks, F_cache_creation)
             = SumOver(sorted_entries, F_cache_creation)
       /\ SumOver(RealBlocks, F_cache_read) = SumOver(sorted_entries, F_cache_read)
       /\ SumOver(RealBlocks, F_block_cost) = SumOver(sorted_entries, C24_Cost)

\* Three entries have been segmented into two real blocks, the first of
\* them holding an entry at the very end of its window.
C24_Witness ==
    /\ bpc = "done" /\ Len(sorted_entries) = 3 /\ Len(RealBlocks) = 2
    /\ RealBlocks[1].n_entries = 2
    /\ Get(RealBlocks[1].actual_end_time) = RealBlocks[1].start_time + Hours(5)

(***************************************************************************)
(* The active block                                                        *)
(***************************************************************************)
NoEntryAfterNow ==
    \A i \in 1..Len(sorted_entries) : sorted_entries[i].timestamp <= now

ActiveIndexes == {j \in 1..Len(blocks) : blocks[j].is_active}

\* C25: if no input entry is later than now, at most one block returned by
\* identify_session_blocks has is_active = true, and if there is one it is
\* the last real block of the list; the active_block of get_block_usage is
\* that block.
C25_OneActiveBlock ==
    (bpc = "done" /\ NoEntryAfterNow) =>
       /\ Cardinality(ActiveIndexes) <= 1
       /\ \A j \in ActiveIndexes : j = Len(blocks) /\ ~blocks[j].is_gap
       /\ ActiveBlock(blocks) =
             IF ActiveIndexes = {} THEN None ELSE Some(Last(blocks))

\* Two real blocks have been returned, the last of them active, the
\* last entry of the first block less than 5 hours before now.
C25_Witness ==
    /\ bpc = "done" /\ NoEntryAfterNow
    /\ Len(RealBlocks) = 2
    /\ ActiveIndexes = {Len(blocks)}
    /\ now - Get(RealBlocks[1].actual_end_time) < Hours(5)

\* With an entry later than now two blocks are active.
TwoActiveBlocks ==
    /\ bpc = "done" /\ Cardinality(ActiveIndexes) = 2

\* The responses that get_block_usage computes without filters name the
\* last block as active_block, or none.
ComputedActiveBlock ==
    (ret.op = "get_block_usage" /\ ~ret.from_cache /\ ~ret.recent /\ ~ret.active) =>
       LET all == identify_session_blocks(log, TickOf(clock)) IN
       /\ IsSome(ret.result.active_block) =>
             /\ Get(ret.result.active_block) = Last(all)
             /\ \A j \in 1..(Len(all) - 1) : ~all[j].is_active
       /\ ~IsSome(ret.result.active_block) =>
             \A j \in 1..Len(all) : ~all[j].is_active

(***************************************************************************)
(* Cache keys of the queries (usage_service.py:68-81, 687-732)             *)
(***************************************************************************)
\* A date as the characters of a query parameter.
DateStr(d) == <<d>>

\* get_daily_usage(project_path, start_date, end_date) as asked: for the
\* project folder "p" up to a day, for a project folder whose name reads
\* like "p" followed by an end parameter, for "p" and for all folders
\* without dates, for "p" from a day on.
DailyQuery(project_path, start_date, end_date) ==
    [project_path |-> project_path, start_date |-> start_date,
     end_date |-> end_date]

KeyQueries ==
    LET d == strftime_Ymd(0) IN
    { DailyQuery(Some(<<"p">>), None, Some(d)),
      DailyQuery(Some(<<"p", ":", "end", ":">> \o DateStr(d)), None, None),
      DailyQuery(Some(<<"p">>), None, None),
      DailyQuery(None, None, None),
      DailyQuery(Some(<<"p">>), Some(d), None) }

\* The cache key of l.694-696.
DailyKey(q) ==
    get_cache_key("daily", q.project_path,
       <<(<<"end", IF IsSome(q.end_date) THEN Some(DateStr(Get(q.end_date)))
                   ELSE None>>),
         (<<"start", IF IsSome(q.start_date) THEN Some(DateStr(Get(q.start_date)))
                     ELSE None>>)>>)

\* get_daily_usage (l.687-732) with the cache; the loaded timestamps carry
\* the UTC designator of the log records.
KeyQuery ==
    /\ \E q \in KeyQueries :
          LET cache_key == DailyKey(q)
              cached == get_from_cache(usage_cache, cache_key, clock)
              entries == get_all_usage_entries(q.project_path)
              response == get_daily_usage(entries, "utc", q.start_date, q.end_date)
              call == [op |-> "get_daily_usage", query |-> q, key |-> cache_key]
          IN  IF IsSome(cached)
              THEN /\ ret' = call @@ [status |-> "ok", result |-> cached,
                                      from_cache |-> TRUE]
                   /\ UNCHANGED <<usage_cache, saved>>
              ELSE IF ~IsSome(response)
              THEN /\ ret' = call @@ [status |-> "raised", result |-> None,
                                      from_cache |-> FALSE]
                   /\ UNCHANGED <<usage_cache, saved>>
              ELSE /\ usage_cache' = save_to_cache(usage_cache, cache_key, "daily",
                                                   Get(response), q.project_path,
                                                   clock)
                   /\ saved' = IF db_configured
                               THEN Remember(cache_key, Get(response), q)
                               ELSE saved
                   /\ ret' = call @@ [status |-> "ok", result |-> response,
                                      from_cache |-> FALSE]
    /\ UNCHANGED <<clock, log, db_configured, notCache>>

KeysNext == KeyQuery \/ CacheAppend

SpecKeys == InitCache /\ [][KeysNext]_vars

\* C26: get_cache_key is injective on queries: two queries that differ in
\* cache type, in project_path or in the value of a non-null parameter
\* never have the same cache key, so no query is answered with a result
\* that was cached for another query.
C26_KeysAreInjective ==
    /\ \A q1 \in KeyQueries, q2 \in KeyQueries :
          DailyKey(q1) = DailyKey(q2) => q1 = q2
    /\ (ret.op = "get_daily_usage" /\ ret.from_cache) =>
          \A h \in LastSave(ret.key) : h.src = ret.query

\* The same without the project folder whose name holds ":".
KeysWithoutColonAreInjective ==
    LET plain == {q \in KeyQueries :
                    IsSome(q.project_path) => ":" \notin Range(Get(q.project_path))}
    IN  /\ \A q1 \in plain, q2 \in plain : DailyKey(q1) = DailyKey(q2) => q1 = q2
        /\ (ret.op = "get_daily_usage" /\ ret.from_cache /\ ret.query \in plain) =>
              \A h \in LastSave(ret.key) : h.src \in plain => h.src = ret.query

\* A query is answered from the cache with the result saved by a query for
\* another project folder.
AnsweredForAnotherQuery ==
    /\ ret.op = "get_daily_usage" /\ ret.from_cache
    /\ \E h \in LastSave(ret.key) : h.src.project_path # ret.query.project_path

(***************************************************************************)
(* The stored hash and the parsed file                                     *)
(***************************************************************************)
\* C27: under any interleaving of list_sessions with a process that appends
\* to the session file, a summary that get_cached_summary returns as valid
\* was computed from the file contents whose (size, modification time) hash
\* is the stored hash: it is the summary of the file as it is.
C27_HashDescribesParsedFile ==
    (sret.op = "get_cached_summary" /\ IsSome(sret.result)) =>
       Get(sret.result) = ParseSummary(sret.file, files[sret.file])

(***************************************************************************)
(* Agreement of the aggregate views                                        *)
(***************************************************************************)
\* The rows of the view agg_view that count the entry e.
RowsCounting(e) ==
    {j \in 1..Len(agg_rows) :
        CASE agg_view = "daily" -> agg_rows[j].date = strftime_Ymd(e.timestamp)
          [] agg_view = "monthly" -> agg_rows[j].month = strftime_Ym(e.timestamp)
          [] agg_view = "session" ->
               agg_rows[j].project_path \o <<":">> \o agg_rows[j].session_id
                  = e.project_path \o <<":">> \o e.session_id
          [] OTHER -> FALSE}

\* The sums over the rows of a view are the totals of get_usage_summary.
SumsAre(rows, summary) ==
    /\ SumOver(rows, F_row_input) = summary.total_input_tokens
    /\ SumOver(rows, F_row_output) = summary.total_output_tokens
    /\ SumOver(rows, F_row_cache_creation) = summary.total_cache_creation_tokens
    /\ SumOver(rows, F_row_cache_read) = summary.total_cache_read_tokens
    /\ SumOver(rows, F_row_cost) = summary.total_cost

\* C28: the aggregate views agree on the same entry list: the sums of each
\* token count and of cost over the rows of aggregate_by_daily, of
\* aggregate_by_monthly and of aggregate_by_session are equal to each other
\* and to the totals of get_usage_summary, and every entry is counted in
\* exactly one row of each view.  Every view of every entry list is a
\* state of its own; each is compared with the summary of the same list.
C28_ViewsAgree ==
    agg_view \in {"daily", "monthly", "session"} =>
        LET summary == UsageSummary(agg_entries) IN
        /\ SumsAre(agg_rows, summary)
        /\ \A i \in 1..Len(agg_entries) :
              Cardinality(RowsCounting(agg_entries[i])) = 1
        /\ \A j \in 1..Len(agg_rows) :
              LET part == RowPartition(agg_rows[j]) IN
              /\ agg_rows[j].totals.input_tokens = SumOver(part, F_input)
              /\ agg_rows[j].totals.output_tokens = SumOver(part, F_output)
              /\ agg_rows[j].totals.cache_creation_tokens
                    = SumOver(part, F_cache_creation)
              /\ agg_rows[j].totals.cache_read_tokens
                    = SumOver(part, F_cache_read)

\* Two entries of one session and one month on two days, 250k and 150k
\* input tokens of one model: two daily rows, one monthly, one session row.
C28_Witness ==
    /\ agg_view = "daily" /\ Len(agg_rows) = 2
    /\ Len(aggregate_by_monthly(agg_entries)) = 1
    /\ Len(aggregate_by_session(agg_entries)) = 1
    /\ SumOver(agg_rows, F_row_input) = 400
    /\ SumOver(agg_rows, F_row_cost) > 0

(***************************************************************************)
(* Model breakdowns of a row                                               *)
(***************************************************************************)
F_breakdown_cost(b) == b.cost

\* C29: in every daily, monthly and session row, model_breakdowns has
\* exactly one element per distinct model of the row's entries, the set of
\* breakdown models equals models_used, and the sum over the breakdowns of
\* each token count and of cost equals the row's corresponding total.
C29_BreakdownsPerModel ==
    agg_view \in {"daily", "monthly", "session"} =>
        \A j \in 1..Len(agg_rows) :
            LET part == RowPartition(agg_rows[j])
                row == agg_rows[j].totals
                bd == row.model_breakdowns
                models == {part[i].model : i \in 1..Len(part)}
            IN  /\ \A k \in 1..Len(bd) : bd[k].model \in models
                /\ \A mo \in models :
                      Cardinality({k \in 1..Len(bd) : bd[k].model = mo}) = 1
                /\ {bd[k].model : k \in 1..Len(bd)} = row.models_used
                /\ SumOver(bd, F_input) = row.input_tokens
                /\ SumOver(bd, F_output) = row.output_tokens
                /\ SumOver(bd, F_cache_creation) = row.cache_creation_tokens
                /\ SumOver(bd, F_cache_read) = row.cache_read_tokens
                /\ SumOver(bd, F_breakdown_cost) = row.total_cost

\* A monthly row of two entries of one model, 250k and 150k input tokens:
\* both are merged in the one breakdown of that model.
C29_Witness ==
    /\ agg_view = "monthly"
    /\ Len(agg_rows) = 1
    /\ Len(RowPartition(agg_rows[1])) = 2
    /\ Cardinality(ModelsOf(agg_entries)) = 1
    /\ Len(agg_rows[1].totals.model_breakdowns) = 1
    /\ agg_rows[1].totals.model_breakdowns[1].input_tokens = 400
    /\ agg_rows[1].totals.total_cost > 0

(***************************************************************************)
(* Conversations of a session (session_service.py:178-235)                 *)
(***************************************************************************)
USER_TEXT_LIMIT == 100
MaxRecords == 5

\* A record of the session file: its "type", its "isMeta" flag, the length
\* of the text of its message and its timestamp (its position in the log).
Record(type, isMeta, text_len, timestamp) ==
    [type |-> type, isMeta |-> isMeta, text_len |-> text_len,
     timestamp |-> timestamp]

\* The records a session file holds: user prompts with a text at and over
\* the limit of user_text, meta user records, assistant records (with and
\* without the flag) and summary records.
RecordShapes(timestamp) ==
    { Record("user", FALSE, USER_TEXT_LIMIT, timestamp),
      Record("user", FALSE, USER_TEXT_LIMIT + 1, timestamp),
      Record("user", TRUE, 0, timestamp),
      Record("assistant", FALSE, 0, timestamp),
      Record("assistant", TRUE, 0, timestamp),
      Record("summary", FALSE, 0, timestamp) }

\* _build_session_message (l.211-235): the type and the timestamp of the
\* record.
_build_session_message(obj) ==
    [type |-> obj.type, timestamp |-> obj.timestamp]

\* user_text[:100] + "..." if len(user_text) > 100 else user_text (l.196)
user_text_of(obj) ==
    IF obj.text_len > USER_TEXT_LIMIT
    THEN [len |-> USER_TEXT_LIMIT, ellipsis |-> TRUE]
    ELSE [len |-> obj.text_len, ellipsis |-> FALSE]

\* A variant of the test below that takes every user record.
StartsConversation_AnyUser(obj) == obj.type = "user"

\* obj_type == "user" and not obj.get("isMeta") (l.186)
StartsConversation(obj) == obj.type = "user" /\ ~obj.isMeta

\* One turn of the loop (l.183-204) on the pair of conversations and
\* current_convo.
ConvStep(st, obj) ==
    IF StartsConversation(obj)
    THEN [conversations |->
              IF IsSome(st.current_convo)
              THEN Append(st.conversations, Get(st.current_convo))
              ELSE st.conversations,
          current_convo |->
              Some([user_text |-> user_text_of(obj),
                    timestamp |-> obj.timestamp,
                    messages |-> <<_build_session_message(obj)>>,
                    is_continuation |-> FALSE])]
    ELSE IF obj.type = "assistant" /\ IsSome(st.current_convo)
    THEN [st EXCEPT !.current_convo =
              Some([Get(st.current_convo) EXCEPT !.messages =
                       Append(@, _build_session_message(obj))])]
    ELSE st

RECURSIVE ConvLoop(_)
ConvLoop(entries) ==
    IF entries = <<>> THEN [conversations |-> <<>>, current_convo |-> None]
    ELSE ConvStep(ConvLoop(SubSeq(entries, 1, Len(entries) - 1)),
                  entries[Len(entries)])

\* parse_session_to_conversations (l.178-209)
parse_session_to_conversations(entries) ==
    LET st == ConvLoop(entries) IN
    IF IsSome(st.current_convo)
    THEN Append(st.conversations, Get(st.current_convo))
    ELSE st.conversations

\* A record is read from the session file (parse_jsonl_file, l.139-152).
ConvAppend ==
    /\ conv_ret.op = "init"
    /\ Len(conv_entries) < MaxRecords
    /\ \E obj \in RecordShapes(Len(conv_entries) + 1) :
          conv_entries' = Append(conv_entries, obj)
    /\ UNCHANGED conv_ret
    /\ UNCHANGED notConv

ConvParse ==
    /\ conv_ret.op = "init"
    /\ conv_ret' = [op |-> "parse_session_to_conversations",
                    result |-> parse_session_to_conversations(conv_entries)]
    /\ UNCHANGED conv_entries
    /\ UNCHANGED notConv

ConvInit == conv_entries = <<>> /\ conv_ret = [op |-> "init"]

ConvNext == ConvAppend \/ ConvParse

InitConv ==
    /\ ConvInit
    /\ BlockIdle /\ AggIdle /\ CacheIdle /\ ConcIdle /\ SessIdle
    /\ LoaderIdle /\ PriceIdle /\ FilterIdle

SpecConv == InitConv /\ [][ConvNext]_vars

\* The positions of the non-meta user records of the log, in log order.
UserPositions ==
    SelectSeq([i \in 1..Len(conv_entries) |-> i],
              LAMBDA i : conv_entries[i].type = "user"
                           /\ ~conv_entries[i].isMeta)

\* The messages expected in the conversation of the k-th non-meta user
\* record: that record, then the assistant records before the next one.
ExpectedMessages(k) ==
    LET first == UserPositions[k]
        next == IF k < Len(UserPositions) THEN UserPositions[k + 1]
                ELSE Len(conv_entries) + 1
        between == SubSeq(conv_entries, first + 1, next - 1)
        answers == SelectSeq(between, LAMBDA e : e.type = "assistant")
    IN  <<[type |-> "user", timestamp |-> conv_entries[first].timestamp]>>
        \o [i \in 1..Len(answers) |->
              [type |-> "assistant", timestamp |-> answers[i].timestamp]]

\* C30: parse_session_to_conversations is a state machine over the log
\* records in order: every non-meta user record starts exactly one new
\* conversation, whose first message is that record and whose following
\* messages are the assistant records before the next non-meta user record,
\* in log order; assistant records before the first non-meta user record,
\* meta user records and records of other types appear in no conversation;
\* there are as many conversations as non-meta user records.
C30_Conversations ==
    conv_ret.op = "parse_session_to_conversations" =>
        /\ Len(conv_ret.result) = Len(UserPositions)
        /\ \A k \in 1..Len(conv_ret.result) :
              /\ conv_ret.result[k].messages = ExpectedMessages(k)
              /\ conv_ret.result[k].timestamp
                    = conv_entries[UserPositions[k]].timestamp
        /\ \A i \in 1..Len(conv_entries) :
              (\/ conv_entries[i].type \notin {"user", "assistant"}
               \/ conv_entries[i].type = "user" /\ conv_entries[i].isMeta
               \/ Len(UserPositions) = 0
               \/ i < UserPositions[1])
              => \A k \in 1..Len(conv_ret.result) :
                    \A j \in 1..Len(conv_ret.result[k].messages) :
                        conv_ret.result[k].messages[j].timestamp
                           # conv_entries[i].timestamp

\* An assistant record, a prompt, a meta user record, an answer and a
\* second prompt: two conversations, the first of the prompt and the answer.
C30_Witness ==
    /\ conv_ret.op = "parse_session_to_conversations"
    /\ Len(conv_entries) = 5
    /\ conv_entries[1].type = "assistant"
    /\ conv_entries[2].type = "user" /\ ~conv_entries[2].isMeta
    /\ conv_entries[3].type = "user" /\ conv_entries[3].isMeta
    /\ conv_entries[4].type = "assistant"
    /\ conv_entries[5].type = "user" /\ ~conv_entries[5].isMeta
    /\ Len(conv_ret.result) = 2
    /\ Len(conv_ret.result[1].messages) = 2
    /\ Len(conv_ret.result[2].messages) = 1

=============================================================================
